---- MODULE Spec2Model ----
(***************************************************************************)
(* A model of the NFL coaching network repository:                         *)
(*   - "Python Scrapers/convert to network format.py", the script that     *)
(*     turns the roster table into the nodes table, the hierarchical       *)
(*     edges and the co-staff edges (specification SpecBuild);             *)
(*   - "Network Vis/network_app.py", the Streamlit script that resolves    *)
(*     the visible sub-graph for a selection and facets (SpecView).        *)
(***************************************************************************)
EXTENDS Integers, Sequences, FiniteSets, TLC

VARIABLES
    \* ---- convert to network format.py
    bpc,            \* position in the script
    csv,            \* rows of nfl_staff_updated_OC.csv, in file order
    df,             \* the data frame df, in row order
    nodes,          \* the nodes table: sequence of [coach, coach_id]
    edges,          \* the list edges (hierarchical), in append order
    costaff_edges,  \* the list costaff_edges, in append order
    \* ---- network_app.py
    vpc,                \* "nofiles", "files": before a script run; "shown": after it;
                        \* "detected", "stopped", "loaded": the steps of the load
    nodes_file,         \* rows of nodes_costaff.csv
    edges_file,         \* rows of edges_df.csv
    nodes_df_original,  \* the node table as loaded
    edges_df_full,      \* the edge table as loaded
    filter_mode,        \* the radio "Filter by:", after the fallbacks
    selected_node,      \* the selectbox of nodes (None in community mode)
    connection_depth,   \* the radio "Connection Depth" (None in community mode)
    selected_community, \* the selectbox of communities
    include_external,   \* the checkbox "Include External Connections"
    selected_years,     \* the multiselect "Filter by Year" ({}: nothing selected, or None)
    selected_teams,     \* the multiselect "Filter by Team" ({}: nothing selected, or None)
    connected_nodes,    \* the node set of the selection
    edges_df,           \* the filtered edges of the view
    nodes_df,           \* the node rows of the view
    nodes_in_edges,     \* the endpoints of the filtered edges: the nodes of G
    warning,            \* the st.warning messages of the run
    \* ---- network_app.py, the load (lines 62-80 and 152-165)
    edges_columns,      \* edges_df.columns
    nodes_columns,      \* nodes_df.columns
    source_col,         \* the detected column names
    target_col,
    id_col,
    label_col,
    error,              \* the st.error messages of the run
    G_full,             \* the graph: [nodes, edges, attrs]
    \* ---- network_app.py, two runs compared
    last_view,          \* the arguments and the result of an earlier run
    \* ---- network_app.py, the drawing (lines 265-339)
    net_edges,          \* the edges added to the pyvis network
    \* ---- combine_staff_files.py, combine_wide_format
    cpc,                \* "start", "found", "returned", "raised"
    files,              \* the wide files found, in sorted order: their rows
    keep_strategy,      \* the argument keep_strategy
    returned,           \* the data frame returned, in row order
    \* ---- scraper_retry_from_csv_debug.py, scrape_failed_teams
    spc,                \* "start", "initial", "retry", "test", "returned", "raised"
    tasks,              \* the team-seasons loaded from the CSV, in file order
    workers,            \* the arguments workers, max_retries, debug
    max_retries,
    debug,
    all_data,           \* the three lists of the function
    failed_teams,
    true_failures,
    skipped_count,
    retry_count,
    futures,            \* the team-seasons submitted in the round, in order
    done,               \* the positions of futures whose result is handled
    attempts            \* per team-season, the calls of scrape_team_season so far

bvars == <<bpc, csv, df, nodes, edges, costaff_edges>>
vvars == <<vpc, nodes_file, edges_file, nodes_df_original, edges_df_full,
           filter_mode, selected_node, connection_depth, selected_community,
           include_external, selected_years, selected_teams, connected_nodes,
           edges_df, nodes_df, nodes_in_edges, warning>>
lvars == <<edges_columns, nodes_columns, source_col, target_col, id_col, label_col,
           error, G_full, last_view>>
rvars == <<net_edges>>
cvars == <<cpc, files, keep_strategy, returned>>
svars == <<spc, tasks, workers, max_retries, debug, all_data, failed_teams,
           true_failures, skipped_count, retry_count, futures, done, attempts>>
xvars == <<rvars, cvars, svars>>
vars == <<bvars, vvars, lvars, xvars>>

(***************************************************************************)
(* Bounds and input domains of the roster.                                 *)
(***************************************************************************)
MaxRows == 3

Names == {"Reid", "Shula"}
\* Team names in sorted order (groupby iterates its keys sorted).
TeamOrder == <<"KC", "MIA">>
Years == {2001, 2002}
\* The team-seasons rows are drawn from.
TeamSeasons == {<<"KC", 2001>>, <<"KC", 2002>>}
Sides == {"Offense", "Defense"}
\* The missing value a Series.map or a left merge leaves (never a level or an id),
\* and the missing value of an empty numeric cell of the roster file.
NaN == -1
\* The missing value of an empty text cell of the roster file.
NaNText == "nan"

allowed_roles == {"Head Coach", "Coordinator", "Position Coach - Defense",
                  "Position Coach - Offense", "Specialist Coach"}
\* One role category outside the allowed list.
OtherRoles == {"Front Office"}
Roles == allowed_roles \cup OtherRoles

RosterRows == [Name : Names, Team : {ts[1] : ts \in TeamSeasons}, Year : Years,
               role_category : Roles, side_of_ball : Sides]
RosterRow == {r \in RosterRows : <<r.Team, r.Year>> \in TeamSeasons}

\* The roster files of n rows.
Rosters(n) == [1..n -> RosterRow]

(***************************************************************************)
(* Sequence helpers.                                                       *)
(***************************************************************************)
Range(s) == {s[i] : i \in DOMAIN s}

RECURSIVE Flatten(_)
Flatten(ss) == IF ss = <<>> THEN <<>> ELSE Head(ss) \o Flatten(Tail(ss))

\* The first occurrence of each element, in order (drop_duplicates).
RECURSIVE DropDuplicates(_)
DropDuplicates(s) ==
    IF s = <<>> THEN <<>>
    ELSE LET init == DropDuplicates(SubSeq(s, 1, Len(s) - 1))
             last == s[Len(s)]
         IN  IF last \in Range(init) THEN init ELSE Append(init, last)

(***************************************************************************)
(* convert to network format.py                                            *)
(***************************************************************************)
\* hierarchy_map, applied with Series.map: a category that is no key maps to NaN.
hierarchy_map(role) ==
    CASE role = "Head Coach" -> 1
      [] role = "Coordinator" -> 2
      [] role = "Position Coach - Defense" -> 3
      [] role = "Position Coach - Offense" -> 3
      [] role = "Specialist Coach" -> 4
      [] OTHER -> NaN

\* a < b on floats: False as soon as one side is NaN.
LessThan_mut(a, b) == a # NaN /\ b # NaN /\ a <= b

LessThan(a, b) == a # NaN /\ b # NaN /\ a < b

\* df[df["role_category"].isin(allowed_roles)] and the hierarchy_level column.
FilterRoles_mut(rows) ==
    [i \in DOMAIN rows |->
        [Name |-> rows[i].Name, Team |-> rows[i].Team, Year |-> rows[i].Year,
         role_category |-> rows[i].role_category,
         side_of_ball |-> rows[i].side_of_ball,
         hierarchy_level |-> hierarchy_map(rows[i].role_category)]]

FilterRoles(rows) ==
    LET kept == SelectSeq(rows, LAMBDA r : r.role_category \in allowed_roles)
    IN  [i \in DOMAIN kept |->
            [Name |-> kept[i].Name, Team |-> kept[i].Team, Year |-> kept[i].Year,
             role_category |-> kept[i].role_category,
             side_of_ball |-> kept[i].side_of_ball,
             hierarchy_level |-> hierarchy_map(kept[i].role_category)]]

\* nodes = df[["Name"]].drop_duplicates().reset_index(drop=True), coach_id = index + 1
NodesTable_mut(rows) ==
    [i \in DOMAIN rows |-> [coach |-> rows[i].Name, coach_id |-> i]]

NodesTable(rows) ==
    LET names == DropDuplicates([i \in DOMAIN rows |-> rows[i].Name])
    IN  [i \in DOMAIN names |-> [coach |-> names[i], coach_id |-> i]]

\* df.merge(nodes[["coach_id", "coach"]], left_on="Name", right_on="coach", how="left"):
\* the coach_id of the nodes row of that name (coach names are distinct in nodes).
CoachId(tbl, name) ==
    IF \E i \in DOMAIN tbl : tbl[i].coach = name
    THEN tbl[CHOOSE i \in DOMAIN tbl : tbl[i].coach = name].coach_id
    ELSE NaN

MergeCoachId(rows, tbl) ==
    [i \in DOMAIN rows |->
        [Name |-> rows[i].Name, Team |-> rows[i].Team, Year |-> rows[i].Year,
         role_category |-> rows[i].role_category,
         side_of_ball |-> rows[i].side_of_ball,
         hierarchy_level |-> rows[i].hierarchy_level,
         coach_id |-> CoachId(tbl, rows[i].Name)]]

\* The keys of df.groupby(["Team", "Year"]), sorted.
TeamRank(t) == CHOOSE i \in DOMAIN TeamOrder : TeamOrder[i] = t

KeyLess(k1, k2) ==
    \/ TeamRank(k1[1]) < TeamRank(k2[1])
    \/ k1[1] = k2[1] /\ k1[2] < k2[2]

RECURSIVE SortKeys(_)
SortKeys(ks) ==
    IF ks = {} THEN <<>>
    ELSE LET least == CHOOSE k \in ks : \A o \in ks \ {k} : KeyLess(k, o)
         IN  <<least>> \o SortKeys(ks \ {least})

\* groupby leaves out the rows with a missing key (dropna=True).
GroupKeys(rows) ==
    SortKeys({k \in {<<rows[i].Team, rows[i].Year>> : i \in DOMAIN rows} :
                 k[1] # NaNText /\ k[2] # NaN})

\* g: the rows of one (team, year), in df order.
Group(rows, key) == SelectSeq(rows, LAMBDA r : <<r.Team, r.Year>> = key)

\* a == b on cell values: False as soon as one side is missing.
SameValue(a, b) == a # NaNText /\ b # NaNText /\ a = b

\* The condition of lines 33-34.
Supervises_mut(src, tgt) ==
    /\ LessThan(src.hierarchy_level, tgt.hierarchy_level)
    /\ SameValue(src.side_of_ball, tgt.side_of_ball)

Supervises(src, tgt) ==
    /\ LessThan(src.hierarchy_level, tgt.hierarchy_level)
    /\ (src.role_category = "Head Coach"
            \/ SameValue(src.side_of_ball, tgt.side_of_ball))

\* Lines 35-46: the edge record.
HierEdge_mut(src, tgt, key) ==
    [from_coach_id |-> src.coach_id, to_coach_id |-> tgt.coach_id,
     team |-> key[1], year |-> 2001,
     from_role |-> src.role_category, to_role |-> tgt.role_category,
     from_side |-> src.side_of_ball, to_side |-> tgt.side_of_ball,
     edge_weight |-> 1, edge_type |-> "hierarchical"]

HierEdge(src, tgt, key) ==
    [from_coach_id |-> src.coach_id, to_coach_id |-> tgt.coach_id,
     team |-> key[1], year |-> key[2],
     from_role |-> src.role_category, to_role |-> tgt.role_category,
     from_side |-> src.side_of_ball, to_side |-> tgt.side_of_ball,
     edge_weight |-> 1, edge_type |-> "hierarchical"]

CoStaffEdge(src, tgt, key) ==
    [from_coach_id |-> src.coach_id, to_coach_id |-> tgt.coach_id,
     team |-> key[1], year |-> key[2],
     from_role |-> src.role_category, to_role |-> tgt.role_category,
     from_side |-> src.side_of_ball, to_side |-> tgt.side_of_ball]

\* The two nested iterrows loops of lines 31-46 over one group g.
HierLoop(g, key) ==
    Flatten([i \in DOMAIN g |->
        Flatten([j \in DOMAIN g |->
            IF Supervises(g[i], g[j]) THEN <<HierEdge(g[i], g[j], key)>> ELSE <<>>])])

HierarchicalEdges(rows) ==
    LET keys == GroupKeys(rows)
    IN  Flatten([k \in DOMAIN keys |-> HierLoop(Group(rows, keys[k]), keys[k])])

\* The co-staff loop appends for every pair: it has no condition.
CoStaffPair_mut(src, tgt) == src # tgt

CoStaffPair(src, tgt) == TRUE

\* The two nested iterrows loops of lines 53-68 over one group g.
CoStaffLoop(g, key) ==
    Flatten([i \in DOMAIN g |->
        Flatten([j \in DOMAIN g |->
            IF CoStaffPair(g[i], g[j]) THEN <<CoStaffEdge(g[i], g[j], key)>> ELSE <<>>])])

CoStaffEdges(rows) ==
    LET keys == GroupKeys(rows)
    IN  Flatten([k \in DOMAIN keys |-> CoStaffLoop(Group(rows, keys[k]), keys[k])])

\* ---- the script, one action per stage
ReadCsv ==
    /\ bpc = "start"
    /\ \E n \in 0..MaxRows : \E roster \in Rosters(n) : csv' = roster /\ df' = roster
    /\ bpc' = "loaded"
    /\ UNCHANGED <<nodes, edges, costaff_edges>>
    /\ UNCHANGED <<vvars, lvars, xvars>>

FilterAllowedRoles ==
    /\ bpc = "loaded"
    /\ df' = FilterRoles(df)
    /\ bpc' = "filtered"
    /\ UNCHANGED <<csv, nodes, edges, costaff_edges>>
    /\ UNCHANGED <<vvars, lvars, xvars>>

CreateNodes ==
    /\ bpc = "filtered"
    /\ nodes' = NodesTable(df)
    /\ df' = MergeCoachId(df, NodesTable(df))
    /\ bpc' = "merged"
    /\ UNCHANGED <<csv, edges, costaff_edges>>
    /\ UNCHANGED <<vvars, lvars, xvars>>

BuildHierarchicalEdges ==
    /\ bpc = "merged"
    /\ edges' = HierarchicalEdges(df)
    /\ bpc' = "hierarchical"
    /\ UNCHANGED <<csv, df, nodes, costaff_edges>>
    /\ UNCHANGED <<vvars, lvars, xvars>>

BuildCoStaffEdges ==
    /\ bpc = "hierarchical"
    /\ costaff_edges' = CoStaffEdges(df)
    /\ bpc' = "done"
    /\ UNCHANGED <<csv, df, nodes, edges>>
    /\ UNCHANGED <<vvars, lvars, xvars>>

BuildStart ==
    /\ bpc = "start"
    /\ csv = <<>>
    /\ df = <<>>
    /\ nodes = <<>>
    /\ edges = <<>>
    /\ costaff_edges = <<>>

BuildNext ==
    \/ ReadCsv
    \/ FilterAllowedRoles
    \/ CreateNodes
    \/ BuildHierarchicalEdges
    \/ BuildCoStaffEdges

(***************************************************************************)
(* convert to network format.py on rosters of up to MaxSeasonRows rows of  *)
(* two team-seasons (specification SpecSeasons).                           *)
(***************************************************************************)
MaxSeasonRows == 4

SeasonRow ==
    [Name : Names, Team : {"KC"}, Year : Years,
     role_category : {"Head Coach", "Coordinator", "Specialist Coach"},
     side_of_ball : {"Offense"}]

SeasonRosters(n) == [1..n -> SeasonRow]

ReadCsvSeasons ==
    /\ bpc = "start"
    /\ \E n \in 0..MaxSeasonRows : \E roster \in SeasonRosters(n) :
          csv' = roster /\ df' = roster
    /\ bpc' = "loaded"
    /\ UNCHANGED <<nodes, edges, costaff_edges>>
    /\ UNCHANGED <<vvars, lvars, xvars>>

SeasonsNext ==
    \/ ReadCsvSeasons
    \/ FilterAllowedRoles
    \/ CreateNodes
    \/ BuildHierarchicalEdges
    \/ BuildCoStaffEdges

(***************************************************************************)
(* convert to network format.py on rosters with empty cells (specification *)
(* SpecMissing).                                                           *)
(***************************************************************************)
CompleteRow ==
    [Name : Names, Team : {"KC"}, Year : {2001},
     role_category : {"Head Coach", "Coordinator"}, side_of_ball : {"Offense"}]

\* A complete row, or a complete row with one cell empty.
MissingRow ==
    CompleteRow
        \cup {[r EXCEPT !.Name = NaNText] : r \in CompleteRow}
        \cup {[r EXCEPT !.Team = NaNText] : r \in CompleteRow}
        \cup {[r EXCEPT !.Year = NaN] : r \in CompleteRow}
        \cup {[r EXCEPT !.role_category = NaNText] : r \in CompleteRow}
        \cup {[r EXCEPT !.side_of_ball = NaNText] : r \in CompleteRow}

MissingRosters(n) == [1..n -> MissingRow]

ReadCsvMissing ==
    /\ bpc = "start"
    /\ \E n \in 0..MaxRows : \E roster \in MissingRosters(n) :
          csv' = roster /\ df' = roster
    /\ bpc' = "loaded"
    /\ UNCHANGED <<nodes, edges, costaff_edges>>
    /\ UNCHANGED <<vvars, lvars, xvars>>

MissingNext ==
    \/ ReadCsvMissing
    \/ FilterAllowedRoles
    \/ CreateNodes
    \/ BuildHierarchicalEdges
    \/ BuildCoStaffEdges

(***************************************************************************)
(* network_app.py: bounds and input domains of the two data files.         *)
(***************************************************************************)
MaxEdges == 3

NodeIds == {"A", "B", "C", "D"}
None == "None"
\* connection_depth = None
NoDepth == 0
\* The (year, team) pairs an edge row may carry.
EdgeYearTeams == {<<2001, "KC">>, <<2001, "MIA">>, <<2002, "KC">>}
EdgeRows ==
    {[from |-> f, to |-> t, year |-> yt[1], team |-> yt[2]] :
        f \in NodeIds, t \in NodeIds, yt \in EdgeYearTeams}
\* The sets of up to k rows of pool.
RECURSIVE TablesUpTo(_, _)
TablesUpTo(pool, k) ==
    IF k = 0 THEN {{}}
    ELSE LET smaller == TablesUpTo(pool, k - 1)
         IN  smaller \cup {t \cup {e} : t \in smaller, e \in pool}

\* Edge tables: up to MaxEdges rows, none from a node to itself.
EdgeTables == TablesUpTo({e \in EdgeRows : e.from # e.to}, MaxEdges)

\* The community column of the node table: a label, or the string NA.
CommunityColumns ==
    {[n \in NodeIds |-> CASE n = "A" -> "East" [] n = "B" -> "East"
                          [] n = "C" -> "West" [] OTHER -> "NA"]}
\* Node tables: one row per node id (every edge endpoint has a row).
NodeTables ==
    {{[coach_id |-> n, community |-> col[n]] : n \in NodeIds} : col \in CommunityColumns}

(***************************************************************************)
(* network_app.py: the graph G_full and the selection.                     *)
(***************************************************************************)
\* G_full.nodes(): from_pandas_edgelist adds the endpoints of the edge rows
\* (set_node_attributes adds no node).
GNodes(es) == {e.from : e \in es} \cup {e.to : e \in es}

Successors(es, n) == {e.to : e \in {x \in es : x.from = n}}

Predecessors(es, n) == {e.from : e \in {x \in es : x.to = n}}

\* Lines 174-178.
Depth1Nodes_mut(es, n) == {n} \cup Successors(es, n)

Depth1Nodes(es, n) == {n} \cup Successors(es, n) \cup Predecessors(es, n)

\* Lines 179-188.
SecondHopOnly(es, n) ==
    LET first_hop == Successors(es, n) \cup Predecessors(es, n)
    IN  {n} \cup UNION {Successors(es, v) \cup Predecessors(es, v) : v \in first_hop}

Depth2Nodes_mut(es, n) ==
    LET first_hop == Successors(es, n) \cup Predecessors(es, n)
    IN  {n} \cup first_hop \cup UNION {Successors(es, v) : v \in first_hop}

Depth2Nodes(es, n) ==
    LET first_hop == Successors(es, n) \cup Predecessors(es, n)
    IN  {n} \cup first_hop
            \cup UNION {Successors(es, v) \cup Predecessors(es, v) : v \in first_hop}

\* Lines 99-101: the community values, without NA.
Communities(tbl) == {r.community : r \in tbl} \ {"NA"}

\* Line 111.
CommunityNodes(tbl, c) == {r.coach_id : r \in {x \in tbl : x.community = c}}

\* Lines 201-206: the neighbours of the community's nodes.
ExternalNodes_mut(es, members) ==
    LET hop == UNION {Successors(es, v) \cup Predecessors(es, v) : v \in members}
    IN  hop \cup UNION {Successors(es, v) \cup Predecessors(es, v) : v \in hop}

ExternalNodes(es, members) ==
    UNION {IF node \in GNodes(es)
           THEN Successors(es, node) \cup Predecessors(es, node)
           ELSE {} : node \in members}

\* Lines 190-206: the node set of a community.
CommunityConnected_mut(es, members, ext) == members \cup ExternalNodes(es, members)

CommunityConnected(es, members, ext) ==
    IF ext THEN members \cup ExternalNodes(es, members) ELSE members

(***************************************************************************)
(* network_app.py: the filters and the view.                               *)
(***************************************************************************)
\* Lines 216-219.
EndpointFilter(es, connected) ==
    {e \in es : e.from \in connected /\ e.to \in connected}

\* Lines 223 and 235: the options of the two multiselects, dropna() applied.
YearOptions(es) == {e.year : e \in es} \ {NaN}

TeamOptions(es) == {e.team : e \in es} \ {NaNText}

\* Lines 231-232: an empty selection filters nothing.
YearFilter_mut(es, sel) == es

YearFilterKeepEmpty(es, sel) ==
    IF sel # {} THEN {e \in es : e.year \in sel \cup {NaN}} ELSE es

YearFilter(es, sel) == IF sel # {} THEN {e \in es : e.year \in sel} ELSE es

\* Lines 243-244.
TeamFilter_mut(es, sel) == es

TeamFilterStrict(es, sel) == {e \in es : e.team \in sel}

TeamFilter(es, sel) == IF sel # {} THEN {e \in es : e.team \in sel} ELSE es

\* Lines 232 and 244 in sequence: the team filter acts on the year-filtered edges.
FacetFilter_mut(es, years, teams) ==
    IF years # {} /\ teams # {}
    THEN {e \in es : e.year \in years \/ e.team \in teams}
    ELSE TeamFilter(YearFilter(es, years), teams)

FacetFilter(es, years, teams) == TeamFilter(YearFilter(es, years), teams)

\* Line 250.
NodesInEdges_mut(es) == {e.from : e \in es}

NodesInEdges(es) == {e.from : e \in es} \cup {e.to : e \in es}

\* Line 251.
ViewNodes(tbl, ids) == {r \in tbl : r.coach_id \in ids}

\* Lines 16 and 86: the copies of the tables as loaded, taken before line 247
\* rebinds edges_df to the filtered edges and line 251 nodes_df.
FullCopy_mut(loaded, filtered) == filtered

FullCopy(loaded, filtered) == loaded

\* Lines 214-251 of one script run for given facet values: the view.
ResolveView(mode, node, depth, comm, ext, connected, warn, years, teams) ==
    LET filtered == EndpointFilter(edges_file, connected)
        shown == FacetFilter(filtered, years, teams)
        endpoints == NodesInEdges(shown)
    IN  /\ vpc' = "shown"
        /\ nodes_df_original' = FullCopy(nodes_file, ViewNodes(nodes_file, endpoints))
        /\ edges_df_full' = FullCopy(edges_file, shown)
        /\ filter_mode' = mode
        /\ selected_node' = node
        /\ connection_depth' = depth
        /\ selected_community' = comm
        /\ include_external' = ext
        /\ selected_years' = years
        /\ selected_teams' = teams
        /\ connected_nodes' = connected
        /\ edges_df' = shown
        /\ nodes_in_edges' = endpoints
        /\ nodes_df' = ViewNodes(nodes_file, endpoints)
        /\ warning' = warn
        /\ UNCHANGED <<nodes_file, edges_file>>
        /\ UNCHANGED <<bvars, lvars, xvars>>

\* Lines 214-251 of one script run: the facets are chosen among the options
\* the run offers, then the view is computed.
ShowView(mode, node, depth, comm, ext, connected, warn) ==
    LET filtered == EndpointFilter(edges_file, connected)
    IN  \E years \in SUBSET YearOptions(filtered) :
          \E teams \in SUBSET TeamOptions(YearFilter(filtered, years)) :
            ResolveView(mode, node, depth, comm, ext, connected, warn, years, teams)

\* The two data files the script reads (lines 14-15).
DataFiles ==
    /\ vpc = "nofiles"
    /\ \E tbl \in NodeTables, es \in EdgeTables :
          /\ nodes_file' = tbl
          /\ edges_file' = es
    /\ vpc' = "files"
    /\ UNCHANGED <<nodes_df_original, edges_df_full, filter_mode, selected_node,
                   connection_depth, selected_community, include_external,
                   selected_years, selected_teams, connected_nodes, edges_df,
                   nodes_df, nodes_in_edges, warning>>
    /\ UNCHANGED <<bvars, lvars, xvars>>

NodeOptions == {r.coach_id : r \in nodes_file}

\* A run in Individual Node mode, the node in G_full (lines 120-188).
RunIndividualNode ==
    /\ vpc = "files"
    /\ \E node \in NodeOptions, depth \in {1, 2} :
          /\ node \in GNodes(edges_file)
          /\ ShowView("Individual Node", node, depth, None, FALSE,
                      IF depth = 1 THEN Depth1Nodes(edges_file, node)
                                   ELSE Depth2Nodes(edges_file, node),
                      {})

\* Line 210: the fallback shows all nodes of G_full.
FallbackNodes_mut(es) == {}

FallbackNodes(es) == GNodes(es)

\* A run in Individual Node mode, the node not in G_full (lines 208-212).
RunNodeNotFound ==
    /\ vpc = "files"
    /\ \E node \in NodeOptions, depth \in {1, 2} :
          /\ node \notin GNodes(edges_file)
          /\ ShowView("Individual Node", node, depth, None, FALSE,
                      FallbackNodes(edges_file), {"node not found"})

\* Line 98: 'community' in nodes_df.columns.
HasCommunityColumn(tbl) == \A r \in tbl : "community" \in DOMAIN r

\* A run in Community mode (lines 96-112, 190-206).
RunCommunity ==
    /\ vpc = "files"
    /\ HasCommunityColumn(nodes_file)
    /\ \E comm \in Communities(nodes_file), ext \in BOOLEAN :
          ShowView("Community", None, NoDepth, comm, ext,
                   CommunityConnected(edges_file, CommunityNodes(nodes_file, comm), ext),
                   {})

\* Lines 98 and 103 fail: no community column, or no community value but NA.
NoCommunities(tbl) == IF HasCommunityColumn(tbl) THEN Communities(tbl) = {} ELSE TRUE

\* Lines 113-118: the warning of a Community choice that finds no community.
CommunityWarning(tbl) ==
    IF HasCommunityColumn(tbl) THEN "no valid communities" ELSE "no community column"

\* The node set and the warnings of lines 172-188 and 208-212 for a focal node.
IndividualConnected(es, node, depth) ==
    IF node \in GNodes(es)
    THEN IF depth = 1 THEN Depth1Nodes(es, node) ELSE Depth2Nodes(es, node)
    ELSE FallbackNodes(es)

IndividualWarning(es, node) ==
    IF node \in GNodes(es) THEN {} ELSE {"node not found"}

\* "Community" is chosen and the node table has no community column, or no
\* community value but NA: a warning, and the run goes on in Individual Node
\* mode (lines 113-136).
RunNoCommunities_mut ==
    /\ vpc = "files"
    /\ NoCommunities(nodes_file)
    /\ \E node \in NodeOptions, depth \in {1, 2} :
          ShowView("Individual Node", node, depth, None, FALSE,
                   FallbackNodes(edges_file), {CommunityWarning(nodes_file)})

RunNoCommunities ==
    /\ vpc = "files"
    /\ NoCommunities(nodes_file)
    /\ \E node \in NodeOptions, depth \in {1, 2} :
          ShowView("Individual Node", node, depth, None, FALSE,
                   IndividualConnected(edges_file, node, depth),
                   {CommunityWarning(nodes_file)} \cup IndividualWarning(edges_file, node))

\* A widget is touched: Streamlit runs the script again from the top, with
\* fresh script variables and the same files.
Rerun_mut ==
    /\ vpc = "shown"
    /\ vpc' = "files"
    /\ nodes_df_original' = {}
    /\ edges_df_full' = {}
    /\ filter_mode' = None
    /\ selected_node' = None
    /\ connection_depth' = NoDepth
    /\ selected_community' = None
    /\ include_external' = FALSE
    /\ selected_years' = {}
    /\ selected_teams' = {}
    /\ connected_nodes' = {}
    /\ edges_df' = {}
    /\ nodes_df' = {}
    /\ nodes_in_edges' = {}
    /\ warning' = {}
    /\ edges_file' = edges_df
    /\ UNCHANGED nodes_file
    /\ UNCHANGED <<bvars, lvars, xvars>>

Rerun ==
    /\ vpc = "shown"
    /\ vpc' = "files"
    /\ nodes_df_original' = {}
    /\ edges_df_full' = {}
    /\ filter_mode' = None
    /\ selected_node' = None
    /\ connection_depth' = NoDepth
    /\ selected_community' = None
    /\ include_external' = FALSE
    /\ selected_years' = {}
    /\ selected_teams' = {}
    /\ connected_nodes' = {}
    /\ edges_df' = {}
    /\ nodes_df' = {}
    /\ nodes_in_edges' = {}
    /\ warning' = {}
    /\ UNCHANGED <<nodes_file, edges_file>>
    /\ UNCHANGED <<bvars, lvars, xvars>>

ViewStart ==
    /\ vpc = "nofiles"
    /\ nodes_file = {}
    /\ edges_file = {}
    /\ nodes_df_original = {}
    /\ edges_df_full = {}
    /\ filter_mode = None
    /\ selected_node = None
    /\ connection_depth = NoDepth
    /\ selected_community = None
    /\ include_external = FALSE
    /\ selected_years = {}
    /\ selected_teams = {}
    /\ connected_nodes = {}
    /\ edges_df = {}
    /\ nodes_df = {}
    /\ nodes_in_edges = {}
    /\ warning = {}

ViewNext ==
    \/ DataFiles
    \/ RunIndividualNode
    \/ RunNodeNotFound
    \/ RunCommunity
    \/ Rerun

(***************************************************************************)
(* network_app.py: the load of the two files under the accepted column     *)
(* names (specification SpecLoad).                                         *)
(***************************************************************************)
EdgeEndpointColumns == {"from", "to", "source", "target"}
NodeNameColumns == {"coach_id", "id", "coach", "label"}

\* The label of a node in the node table.
LabelOf(n) ==
    CASE n = "A" -> "Reid" [] n = "B" -> "Shula" [] n = "C" -> "Noll" [] OTHER -> "Landry"

\* The edge u -> v as a row of a file with the endpoint columns cols and a year.
EdgeRowUnder(cols, u, v) ==
    [c \in cols \cup {"year"} |->
        IF c \in {"from", "source"} THEN u ELSE IF c \in {"to", "target"} THEN v ELSE "2001"]

NodeRowUnder(cols, n) ==
    [c \in cols |-> IF c \in {"coach_id", "id"} THEN n ELSE LabelOf(n)]

\* The edges of the data: up to MaxEdges of the pairs over A, B, C.
LoadPairs == {p \in {"A", "B", "C"} \X {"A", "B", "C"} : p[1] # p[2]}

LoadData == TablesUpTo(LoadPairs, MaxEdges)

\* Lines 62-69: <<source_col, target_col>>, or <<>> for st.error and st.stop.
DetectEdgeColumns_mut(cols) ==
    IF "from" \in cols /\ "to" \in cols THEN <<"from", "to">>
    ELSE IF "source" \in cols /\ "target" \in cols THEN <<"target", "source">>
    ELSE <<>>

DetectEdgeColumns(cols) ==
    IF "from" \in cols /\ "to" \in cols THEN <<"from", "to">>
    ELSE IF "source" \in cols /\ "target" \in cols THEN <<"source", "target">>
    ELSE <<>>

\* Lines 71-80: <<id_col, label_col>>, or <<>> for st.error and st.stop.
DetectNodeColumns_mut(cols) ==
    IF "coach_id" \in cols /\ "id" \notin cols
    THEN <<"coach_id", IF "coach" \in cols THEN "coach" ELSE "coach_id">>
    ELSE IF "id" \in cols /\ "coach_id" \notin cols
    THEN <<"id", IF "label" \in cols THEN "label" ELSE "id">>
    ELSE <<>>

DetectNodeColumns(cols) ==
    IF "coach_id" \in cols
    THEN <<"coach_id", IF "coach" \in cols THEN "coach" ELSE "coach_id">>
    ELSE IF "id" \in cols
    THEN <<"id", IF "label" \in cols THEN "label" ELSE "id">>
    ELSE <<>>

\* Lines 153-154: from_pandas_edgelist with edge_attr=True; the attributes of
\* an edge are the other columns of its row.
EdgeList(es, s, t) ==
    {[source |-> r[s], target |-> r[t], attr |-> [c \in DOMAIN r \ {s, t} |-> r[c]]] :
        r \in es}

\* Lines 157-163: node_attrs_full.
NodeAttrsFull_mut(tbl, idc, lc) ==
    [n \in {r[idc] : r \in tbl} |->
        LET row == CHOOSE r \in tbl : r[idc] = n
        IN  [c \in DOMAIN row \cup {"_id", "_label"} |->
                IF c \in {"_id", "_label"} THEN row[idc] ELSE row[c]]]

NodeAttrsFull(tbl, idc, lc) ==
    [n \in {r[idc] : r \in tbl} |->
        LET row == CHOOSE r \in tbl : r[idc] = n
        IN  [c \in DOMAIN row \cup {"_id", "_label"} |->
                IF c = "_id" THEN row[idc] ELSE IF c = "_label" THEN row[lc] ELSE row[c]]]

\* Lines 153-165: G_full; set_node_attributes skips the ids that are no node.
FullGraph(es, tbl, s, t, idc, lc) ==
    LET edgelist == EdgeList(es, s, t)
        endpoints == {e.source : e \in edgelist} \cup {e.target : e \in edgelist}
        node_attrs_full == NodeAttrsFull(tbl, idc, lc)
    IN  [nodes |-> endpoints,
         edges |-> edgelist,
         attrs |-> [n \in endpoints \cap DOMAIN node_attrs_full |-> node_attrs_full[n]]]

NoGraph == [nodes |-> {}, edges |-> {}, attrs |-> [n \in {} |-> n]]

\* The two data files, under any of the column names.
DataFilesLoad ==
    /\ vpc = "nofiles"
    /\ \E data \in LoadData :
        \E ecols \in SUBSET EdgeEndpointColumns, ncols \in SUBSET NodeNameColumns :
          /\ edges_columns' = ecols \cup {"year"}
          /\ nodes_columns' = ncols
          /\ edges_file' = {EdgeRowUnder(ecols, p[1], p[2]) : p \in data}
          /\ nodes_file' = {NodeRowUnder(ncols, n) : n \in NodeIds}
    /\ vpc' = "files"
    /\ UNCHANGED <<nodes_df_original, edges_df_full, filter_mode, selected_node,
                   connection_depth, selected_community, include_external,
                   selected_years, selected_teams, connected_nodes, edges_df,
                   nodes_df, nodes_in_edges, warning>>
    /\ UNCHANGED <<source_col, target_col, id_col, label_col, error, G_full, last_view>>
    /\ UNCHANGED <<bvars, xvars>>

\* Lines 62-80: the column names are detected, or the script stops with an
\* error (the edges are looked at first).
DetectColumns ==
    /\ vpc = "files"
    /\ LET ec == DetectEdgeColumns(edges_columns)
           nc == DetectNodeColumns(nodes_columns)
       IN  IF ec = <<>>
           THEN /\ error' = {"edges columns"}
                /\ vpc' = "stopped"
                /\ UNCHANGED <<source_col, target_col, id_col, label_col>>
           ELSE IF nc = <<>>
           THEN /\ error' = {"nodes columns"}
                /\ source_col' = ec[1]
                /\ target_col' = ec[2]
                /\ vpc' = "stopped"
                /\ UNCHANGED <<id_col, label_col>>
           ELSE /\ source_col' = ec[1]
                /\ target_col' = ec[2]
                /\ id_col' = nc[1]
                /\ label_col' = nc[2]
                /\ vpc' = "detected"
                /\ UNCHANGED error
    /\ UNCHANGED <<nodes_file, edges_file, nodes_df_original, edges_df_full,
                   filter_mode, selected_node, connection_depth, selected_community,
                   include_external, selected_years, selected_teams, connected_nodes,
                   edges_df, nodes_df, nodes_in_edges, warning>>
    /\ UNCHANGED <<edges_columns, nodes_columns, G_full, last_view>>
    /\ UNCHANGED <<bvars, xvars>>

\* Lines 86 and 152-165: the graph store.
BuildGraph ==
    /\ vpc = "detected"
    /\ nodes_df_original' = nodes_file
    /\ G_full' = FullGraph(edges_file, nodes_file, source_col, target_col, id_col, label_col)
    /\ vpc' = "loaded"
    /\ UNCHANGED <<nodes_file, edges_file, edges_df_full,
                   filter_mode, selected_node, connection_depth, selected_community,
                   include_external, selected_years, selected_teams, connected_nodes,
                   edges_df, nodes_df, nodes_in_edges, warning>>
    /\ UNCHANGED <<edges_columns, nodes_columns, source_col, target_col, id_col,
                   label_col, error, last_view>>
    /\ UNCHANGED <<bvars, xvars>>

LoadStart ==
    /\ edges_columns = {}
    /\ nodes_columns = {}
    /\ source_col = None
    /\ target_col = None
    /\ id_col = None
    /\ label_col = None
    /\ error = {}
    /\ G_full = NoGraph

LoadNext ==
    \/ DataFilesLoad
    \/ DetectColumns
    \/ BuildGraph

(***************************************************************************)
(* network_app.py: a run compared with an earlier run on the same files    *)
(* (specification SpecTwice).                                              *)
(***************************************************************************)
NoView ==
    [mode |-> None, node |-> None, depth |-> NoDepth, community |-> None,
     external |-> FALSE, years |-> {}, teams |-> {},
     edges |-> {}, nodes |-> {}, rows |-> {}]

\* The arguments and the result of the run shown.
ThisView ==
    [mode |-> filter_mode, node |-> selected_node, depth |-> connection_depth,
     community |-> selected_community, external |-> include_external,
     years |-> selected_years, teams |-> selected_teams,
     edges |-> edges_df, nodes |-> nodes_in_edges, rows |-> nodes_df]

TwiceEdgeRows ==
    {e \in EdgeRows : <<e.from, e.to>> \in {<<"A", "B">>, <<"B", "C">>}}

TwiceEdgeTables == TablesUpTo(TwiceEdgeRows, MaxEdges)

DataFilesTwice ==
    /\ vpc = "nofiles"
    /\ \E tbl \in NodeTables, es \in TwiceEdgeTables :
          /\ nodes_file' = tbl
          /\ edges_file' = es
    /\ vpc' = "files"
    /\ UNCHANGED <<nodes_df_original, edges_df_full, filter_mode, selected_node,
                   connection_depth, selected_community, include_external,
                   selected_years, selected_teams, connected_nodes, edges_df,
                   nodes_df, nodes_in_edges, warning>>
    /\ UNCHANGED <<bvars, lvars, xvars>>

\* The script is run again (as Rerun: lines 14-15 read the files anew), and
\* the view it replaces is remembered.
RerunRemember ==
    /\ vpc = "shown"
    /\ last_view' = ThisView
    /\ vpc' = "files"
    /\ nodes_df_original' = {}
    /\ edges_df_full' = {}
    /\ filter_mode' = None
    /\ selected_node' = None
    /\ connection_depth' = NoDepth
    /\ selected_community' = None
    /\ include_external' = FALSE
    /\ selected_years' = {}
    /\ selected_teams' = {}
    /\ connected_nodes' = {}
    /\ edges_df' = {}
    /\ nodes_df' = {}
    /\ nodes_in_edges' = {}
    /\ warning' = {}
    /\ UNCHANGED <<nodes_file, edges_file>>
    /\ UNCHANGED <<edges_columns, nodes_columns, source_col, target_col, id_col,
                   label_col, error, G_full>>
    /\ UNCHANGED <<bvars, xvars>>

HistoryStart == last_view = NoView

TwiceNext ==
    \/ DataFilesTwice
    \/ RunIndividualNode
    \/ RunNodeNotFound
    \/ RunCommunity
    \/ Rerun
    \/ RerunRemember

(***************************************************************************)
(* network_app.py: edge files in which a year or a team cell may be empty   *)
(* (specification SpecBlank).                                               *)
(***************************************************************************)
BlankEdgeRows ==
    {[from |-> p[1], to |-> p[2], year |-> y, team |-> t] :
        p \in {<<"A", "B">>, <<"B", "C">>}, y \in Years \cup {NaN}, t \in {"KC", NaNText}}

BlankEdgeTables == TablesUpTo(BlankEdgeRows, MaxEdges)

DataFilesBlank ==
    /\ vpc = "nofiles"
    /\ \E tbl \in NodeTables, es \in BlankEdgeTables :
          /\ nodes_file' = tbl
          /\ edges_file' = es
    /\ vpc' = "files"
    /\ UNCHANGED <<nodes_df_original, edges_df_full, filter_mode, selected_node,
                   connection_depth, selected_community, include_external,
                   selected_years, selected_teams, connected_nodes, edges_df,
                   nodes_df, nodes_in_edges, warning>>
    /\ UNCHANGED <<bvars, lvars, xvars>>

BlankNext ==
    \/ DataFilesBlank
    \/ RunIndividualNode
    \/ Rerun

(***************************************************************************)
(* network_app.py: the edges of the drawing (lines 265-267 and 328-339;     *)
(* specification SpecRender).  The edge file has any of the columns weight, *)
(* closeness and hierarchy; a cell holds a number or is empty (NaN).        *)
(***************************************************************************)
WeightColumns == {"weight", "closeness", "hierarchy"}

WeightValues(c) ==
    CASE c = "weight" -> {0, 2, NaN}
      [] c = "closeness" -> {0, 3}
      [] OTHER -> {0, 4}

RenderPairs == {<<"A", "B">>, <<"B", "A">>}

\* The rows of an edge file with the strength columns cols.
RenderRows(cols) ==
    {[c \in {"from", "to", "year", "team"} \cup cols |->
        CASE c = "from" -> p[1] [] c = "to" -> p[2] [] c = "year" -> 2001
          [] c = "team" -> "KC" [] OTHER -> val[c]] :
        p \in RenderPairs, val \in [cols -> {0, 2, 3, 4, NaN}]}

RenderEdgeRows(cols) ==
    {r \in RenderRows(cols) : \A c \in cols : r[c] \in WeightValues(c)}

MaxRenderEdges == 2

RenderEdgeTables ==
    UNION {TablesUpTo(RenderEdgeRows(cols), MaxRenderEdges) : cols \in SUBSET WeightColumns}

DataFilesRender ==
    /\ vpc = "nofiles"
    /\ \E tbl \in NodeTables, es \in RenderEdgeTables :
          /\ nodes_file' = tbl
          /\ edges_file' = es
    /\ vpc' = "files"
    /\ UNCHANGED <<nodes_df_original, edges_df_full, filter_mode, selected_node,
                   connection_depth, selected_community, include_external,
                   selected_years, selected_teams, connected_nodes, edges_df,
                   nodes_df, nodes_in_edges, warning>>
    /\ UNCHANGED <<bvars, lvars, xvars>>

\* Lines 265-267: the attributes of the edge u -> v of G are the other
\* columns of a row from u to v.
EdgeData(row) == [c \in DOMAIN row \ {"from", "to"} |-> row[c]]

\* Line 333: the first of weight, closeness, hierarchy among the keys, else 1.
EdgeWeight_mut(data) ==
    IF "closeness" \in DOMAIN data THEN data["closeness"]
    ELSE IF "weight" \in DOMAIN data THEN data["weight"]
    ELSE IF "hierarchy" \in DOMAIN data THEN data["hierarchy"]
    ELSE 1

EdgeWeight(data) ==
    IF "weight" \in DOMAIN data THEN data["weight"]
    ELSE IF "closeness" \in DOMAIN data THEN data["closeness"]
    ELSE IF "hierarchy" \in DOMAIN data THEN data["hierarchy"]
    ELSE 1

\* Line 339: float(weight) if weight else 1.  A zero is falsy; NaN is truthy
\* and float(NaN) is NaN; float keeps the number otherwise.
EdgeValue(weight) == IF weight = 0 THEN 1 ELSE weight

\* Lines 329-339 for one edge of G.
AddEdge(source, target, data) ==
    [source |-> source, target |-> target,
     weight |-> EdgeWeight(data), value |-> EdgeValue(EdgeWeight(data))]

ViewPairs(es) == {<<e.from, e.to>> : e \in es}

\* Lines 265-267 and 328-339: G is a DiGraph, with one edge for the rows of
\* the view from u to v; its attributes are those of the last such row of
\* the file, which is any of them, the file order being free.
CreateNetwork ==
    /\ vpc = "shown"
    /\ \E last \in [ViewPairs(edges_df) -> edges_df] :
          /\ \A p \in ViewPairs(edges_df) : last[p].from = p[1] /\ last[p].to = p[2]
          /\ net_edges' = {AddEdge(p[1], p[2], EdgeData(last[p])) : p \in ViewPairs(edges_df)}
    /\ vpc' = "drawn"
    /\ UNCHANGED <<nodes_file, edges_file, nodes_df_original, edges_df_full,
                   filter_mode, selected_node, connection_depth, selected_community,
                   include_external, selected_years, selected_teams, connected_nodes,
                   edges_df, nodes_df, nodes_in_edges, warning>>
    /\ UNCHANGED <<bvars, lvars, cvars, svars>>

RenderStart == net_edges = {}

RenderNext ==
    \/ DataFilesRender
    \/ RunIndividualNode
    \/ CreateNetwork

(***************************************************************************)
(* combine_staff_files.py: combine_wide_format (lines 47-134;               *)
(* specification SpecCombine).  A wide file has one row per team and year   *)
(* scraped, with the columns Team, Year and one column per staff position.  *)
(***************************************************************************)
MaxFiles == 2
MaxFileRows == 2

WideKeys == {<<"KC", 2001>>, <<"MIA", 2001>>}

\* The rows of a wide file: two staff positions, each a name or empty.
WideRows ==
    {[Team |-> k[1], Year |-> k[2], HC |-> hc, OC |-> oc] :
        k \in WideKeys, hc \in {"Reid", NaNText}, oc \in {"Shula", NaNText}}

RECURSIVE SeqsUpTo(_, _)
SeqsUpTo(pool, k) ==
    IF k = 0 THEN {<<>>}
    ELSE LET shorter == SeqsUpTo(pool, k - 1)
         IN  shorter \cup {Append(q, e) : q \in {x \in shorter : Len(x) = k - 1}, e \in pool}

WideFiles == SeqsUpTo(WideRows, MaxFileRows)

KeepStrategies == {"most_complete", "first", "last", "newest"}

\* Lines 67-68: the frame of file i, with the column _source_file.
WithSourceFile(frame, i) ==
    [j \in DOMAIN frame |->
        [c \in DOMAIN frame[j] \cup {"_source_file"} |->
            IF c = "_source_file" THEN i ELSE frame[j][c]]]

\* Line 79: pd.concat(all_data, ignore_index=True).
RECURSIVE Concat(_, _)
Concat(frames, i) ==
    IF i > Len(frames) THEN <<>>
    ELSE WithSourceFile(frames[i], i) \o Concat(frames, i + 1)

TeamYear(r) == <<r.Team, r.Year>>

\* Line 83: duplicated(subset=['Team', 'Year'], keep=False).
Duplicated(rows) ==
    {i \in DOMAIN rows : \E j \in DOMAIN rows : j # i /\ TeamYear(rows[j]) = TeamYear(rows[i])}

\* Lines 107-108: the number of non-null staff cells of a row.
Completeness_mut(r) ==
    Cardinality({c \in DOMAIN r \ {"Team", "Year", "_source_file"} : r[c] = NaNText})

Completeness(r) ==
    Cardinality({c \in DOMAIN r \ {"Team", "Year", "_source_file"} : r[c] # NaNText})

\* The rows of the positions keep, in order.
RECURSIVE Pick(_, _, _)
Pick(rows, keep, i) ==
    IF i > Len(rows) THEN <<>>
    ELSE (IF i \in keep THEN <<rows[i]>> ELSE <<>>) \o Pick(rows, keep, i + 1)

\* drop_duplicates(subset=['Team', 'Year'], keep='first').
KeepFirst(rows) ==
    Pick(rows, {i \in DOMAIN rows :
                  \A j \in 1..(i - 1) : TeamYear(rows[j]) # TeamYear(rows[i])}, 1)

\* drop_duplicates(subset=['Team', 'Year'], keep='last').
KeepLast(rows) ==
    Pick(rows, {i \in DOMAIN rows :
                  \A j \in (i + 1)..Len(rows) : TeamYear(rows[j]) # TeamYear(rows[i])}, 1)

\* drop(columns=...).
DropColumns(rows, cols) ==
    [i \in DOMAIN rows |-> [c \in DOMAIN rows[i] \ cols |-> rows[i][c]]]

\* Line 111: sort_values('_completeness', ascending=False).  The default
\* sort is not stable: rows of equal completeness come in any order.
SortedByCompleteness(rows) ==
    {[i \in DOMAIN rows |-> rows[perm[i]]] :
        perm \in {f \in [DOMAIN rows -> DOMAIN rows] :
                    /\ \A i, j \in DOMAIN rows : i # j => f[i] # f[j]
                    /\ \A i, j \in DOMAIN rows :
                          i < j => Completeness(rows[f[i]]) >= Completeness(rows[f[j]])}}

\* Lines 15-33 and the arguments of the call: the files found, in sorted order.
FindStaffFiles ==
    /\ cpc = "start"
    /\ files' \in SeqsUpTo(WideFiles, MaxFiles)
    /\ keep_strategy' \in KeepStrategies
    /\ cpc' = "found"
    /\ UNCHANGED returned
    /\ UNCHANGED <<bvars, vvars, lvars, rvars, svars>>

\* Lines 47-134.
CombineWideFormat ==
    /\ cpc = "found"
    /\ LET combined == Concat(files, 1)
       IN  IF files = <<>>
           THEN returned' = <<>> /\ cpc' = "returned"
           ELSE IF Duplicated(combined) = {}
           THEN returned' = DropColumns(combined, {"_source_file"}) /\ cpc' = "returned"
           ELSE IF keep_strategy = "most_complete"
           THEN /\ \E sorted \in SortedByCompleteness(combined) :
                      returned' = DropColumns(KeepFirst(sorted), {"_source_file"})
                /\ cpc' = "returned"
           ELSE IF keep_strategy = "last"
           THEN returned' = DropColumns(KeepLast(combined), {"_source_file"})
                /\ cpc' = "returned"
           ELSE IF keep_strategy = "first"
           THEN returned' = DropColumns(KeepFirst(combined), {"_source_file"})
                /\ cpc' = "returned"
           ELSE UNCHANGED returned /\ cpc' = "raised"
    /\ UNCHANGED <<files, keep_strategy>>
    /\ UNCHANGED <<bvars, vvars, lvars, rvars, svars>>

CombineStart ==
    /\ cpc = "start"
    /\ files = <<>>
    /\ keep_strategy = None
    /\ returned = <<>>

CombineNext ==
    \/ FindStaffFiles
    \/ CombineWideFormat

(***************************************************************************)
(* scraper_retry_from_csv_debug.py: scrape_failed_teams (lines 490-637;     *)
(* specification SpecScrape).  The worker threads run scrape_team_season;   *)
(* the main thread alone handles the results, in the order of completion.   *)
(***************************************************************************)
MaxTasks == 3

ScrapeTeamSeasons ==
    {<<"Kansas City Chiefs", 2001>>, <<"Miami Dolphins", 2001>>, <<"Houston Texans", 2001>>}

\* Lines 483-487: the rows of the CSV, each team-season once.
TaskLists ==
    {q \in SeqsUpTo(ScrapeTeamSeasons, MaxTasks) :
        \A i, j \in DOMAIN q : i # j => q[i] # q[j]}

WorkerCounts == {1, 4}

MaxRetriesValues == {0, 1, 2}

\* Lines 63-68.
TEAM_INCEPTION_YEARS(team) ==
    CASE team = "Carolina Panthers" -> 1995
      [] team = "Jacksonville Jaguars" -> 1995
      [] team = "Baltimore Ravens" -> 1996
      [] team = "Houston Texans" -> 2002
      [] OTHER -> 0

\* Lines 372-377.
team_existed_in_year(team, year) == year >= TEAM_INCEPTION_YEARS(team)

\* Lines 412-480: what a call of scrape_team_season can return for a
\* team-season; the page and the network decide among the last three.
Outcomes(ts) ==
    IF ~team_existed_in_year(ts[1], ts[2]) THEN {"skip"}
    ELSE {"success", "true_failure", "failure"}

\* The entry (team, year, error) of the two failure lists.
FailureEntry(ts, outcome) ==
    <<ts[1], ts[2],
      IF outcome = "true_failure" THEN "No staff section found (Step 1 failure)"
      ELSE "No staff data found">>

\* Line 586.
TeamsToRetry_mut(failed, true) ==
    [i \in 1..(Len(failed) + Len(true)) |->
        IF i <= Len(failed) THEN <<failed[i][1], failed[i][2]>>
        ELSE <<true[i - Len(failed)][1], true[i - Len(failed)][2]>>]

TeamsToRetry(failed, true) == [i \in DOMAIN failed |-> <<failed[i][1], failed[i][2]>>]

\* Line 587: failed_teams = [].
FailedAfterSubmit_mut(failed) == failed

FailedAfterSubmit(failed) == <<>>

\* Line 579: the test of the retry loop.
RetryCondition_mut(failed, count, retries, dbg) == failed # <<>> /\ ~dbg

RetryCondition(failed, count, retries, dbg) ==
    failed # <<>> /\ count <= retries /\ ~dbg

\* Lines 555 and 590: the size of the pool of the round.
PoolSize == IF spc = "initial" THEN workers ELSE IF workers \div 2 > 1 THEN workers \div 2 ELSE 1

\* The executor starts the futures in submission order, PoolSize at a time:
\* position i can be the next to complete when fewer than PoolSize earlier
\* positions are still running.
CanComplete(i) ==
    /\ i \in DOMAIN futures \ done
    /\ Cardinality({j \in 1..(i - 1) : j \notin done}) < PoolSize

\* Lines 540-548, 563-570 and 598-607: the result of one call is handled.
Handle(i, outcome, count_skip) ==
    /\ all_data' = IF outcome = "success" THEN Append(all_data, futures[i]) ELSE all_data
    /\ true_failures' = IF outcome = "true_failure"
                         THEN Append(true_failures, FailureEntry(futures[i], outcome))
                         ELSE true_failures
    /\ failed_teams' = IF outcome = "failure"
                        THEN Append(failed_teams, FailureEntry(futures[i], outcome))
                        ELSE failed_teams
    /\ skipped_count' = IF outcome = "skip" /\ count_skip
                         THEN skipped_count + 1 ELSE skipped_count
    /\ done' = done \cup {i}
    /\ attempts' = [attempts EXCEPT ![futures[i]] = @ + 1]

\* Lines 501-529 and 555-559: the tasks are loaded and, without debug,
\* submitted to the pool.
LoadFailedTeams ==
    /\ spc = "start"
    /\ tasks' \in TaskLists
    /\ workers' \in WorkerCounts
    /\ max_retries' \in MaxRetriesValues
    /\ debug' \in BOOLEAN
    /\ futures' = tasks'
    /\ spc' = "initial"
    /\ UNCHANGED <<all_data, failed_teams, true_failures, skipped_count, retry_count,
                   done, attempts>>
    /\ UNCHANGED <<bvars, vvars, lvars, rvars, cvars>>

\* Lines 531-551: debug mode, the next task of the for loop.
ScrapeSequential ==
    /\ spc = "initial"
    /\ debug
    /\ \E i \in DOMAIN futures \ done :
          /\ \A j \in 1..(i - 1) : j \in done
          /\ \E outcome \in Outcomes(futures[i]) : Handle(i, outcome, TRUE)
    /\ UNCHANGED <<spc, tasks, workers, max_retries, debug, retry_count, futures>>
    /\ UNCHANGED <<bvars, vvars, lvars, rvars, cvars>>

\* Lines 561-571: a future of the initial round completes and is handled.
InitialCompleted ==
    /\ spc = "initial"
    /\ ~debug
    /\ \E i \in DOMAIN futures :
          /\ CanComplete(i)
          /\ \E outcome \in Outcomes(futures[i]) : Handle(i, outcome, TRUE)
    /\ UNCHANGED <<spc, tasks, workers, max_retries, debug, retry_count, futures>>
    /\ UNCHANGED <<bvars, vvars, lvars, rvars, cvars>>

\* Lines 596-608: a future of a retry round completes and is handled.
RetryCompleted ==
    /\ spc = "retry"
    /\ \E i \in DOMAIN futures :
          /\ CanComplete(i)
          /\ \E outcome \in Outcomes(futures[i]) : Handle(i, outcome, FALSE)
    /\ UNCHANGED <<spc, tasks, workers, max_retries, debug, retry_count, futures>>
    /\ UNCHANGED <<bvars, vvars, lvars, rvars, cvars>>

\* Lines 573-578 and 610: every result of the round is handled; retry_count
\* is set to 1 after the initial round and incremented after a retry round.
RoundDone ==
    /\ spc \in {"initial", "retry"}
    /\ done = DOMAIN futures
    /\ retry_count' = IF spc = "initial" THEN 1 ELSE retry_count + 1
    /\ spc' = "test"
    /\ UNCHANGED <<tasks, workers, max_retries, debug, all_data, failed_teams,
                   true_failures, skipped_count, futures, done, attempts>>
    /\ UNCHANGED <<bvars, vvars, lvars, rvars, cvars>>

\* Lines 579-594: the loop test holds; the failed list is resubmitted.
RetryRound ==
    /\ spc = "test"
    /\ RetryCondition(failed_teams, retry_count, max_retries, debug)
    /\ futures' = TeamsToRetry(failed_teams, true_failures)
    /\ failed_teams' = FailedAfterSubmit(failed_teams)
    /\ done' = {}
    /\ spc' = "retry"
    /\ UNCHANGED <<tasks, workers, max_retries, debug, all_data, true_failures,
                   skipped_count, retry_count, attempts>>
    /\ UNCHANGED <<bvars, vvars, lvars, rvars, cvars>>

\* Lines 612-637: the loop test fails; the summary divides by the number of
\* tasks (ZeroDivisionError with none), then the three lists are returned.
ReturnLists ==
    /\ spc = "test"
    /\ ~RetryCondition(failed_teams, retry_count, max_retries, debug)
    /\ spc' = IF Len(tasks) = 0 THEN "raised" ELSE "returned"
    /\ UNCHANGED <<tasks, workers, max_retries, debug, all_data, failed_teams,
                   true_failures, skipped_count, retry_count, futures, done, attempts>>
    /\ UNCHANGED <<bvars, vvars, lvars, rvars, cvars>>

ScrapeStart ==
    /\ spc = "start"
    /\ tasks = <<>>
    /\ workers = 1
    /\ max_retries = 0
    /\ debug = FALSE
    /\ all_data = <<>>
    /\ failed_teams = <<>>
    /\ true_failures = <<>>
    /\ skipped_count = 0
    /\ retry_count = 0
    /\ futures = <<>>
    /\ done = {}
    /\ attempts = [ts \in ScrapeTeamSeasons |-> 0]

ScrapeNext ==
    \/ LoadFailedTeams
    \/ ScrapeSequential
    \/ InitialCompleted
    \/ RetryCompleted
    \/ RoundDone
    \/ RetryRound
    \/ ReturnLists

Init ==
    /\ BuildStart /\ ViewStart /\ LoadStart /\ HistoryStart /\ RenderStart
    /\ CombineStart /\ ScrapeStart

SpecBuild == Init /\ [][BuildNext]_vars

SpecView == Init /\ [][ViewNext]_vars

SpecSeasons == Init /\ [][SeasonsNext]_vars

SpecMissing == Init /\ [][MissingNext]_vars

SpecLoad == Init /\ [][LoadNext]_vars

SpecTwice == Init /\ [][TwiceNext]_vars

(***************************************************************************)
(* network_app.py: the selection with node tables that carry communities,  *)
(* only NA, or no community column (specification SpecSelect).             *)
(***************************************************************************)
\* Edge rows of one year and one team.
SelectEdgeRows == {e \in EdgeRows : e.from # e.to /\ e.year = 2001 /\ e.team = "KC"}

SelectEdgeTables == TablesUpTo(SelectEdgeRows, MaxEdges)

SelectNodeTables ==
    NodeTables
        \cup {{[coach_id |-> n, community |-> "NA"] : n \in NodeIds}}
        \cup {{[coach_id |-> n] : n \in NodeIds}}

DataFilesSelect ==
    /\ vpc = "nofiles"
    /\ \E tbl \in SelectNodeTables, es \in SelectEdgeTables :
          /\ nodes_file' = tbl
          /\ edges_file' = es
    /\ vpc' = "files"
    /\ UNCHANGED <<nodes_df_original, edges_df_full, filter_mode, selected_node,
                   connection_depth, selected_community, include_external,
                   selected_years, selected_teams, connected_nodes, edges_df,
                   nodes_df, nodes_in_edges, warning>>
    /\ UNCHANGED <<bvars, lvars, xvars>>

SelectNext ==
    \/ DataFilesSelect
    \/ RunIndividualNode
    \/ RunNodeNotFound
    \/ RunCommunity
    \/ RunNoCommunities
    \/ Rerun

SpecSelect == Init /\ [][SelectNext]_vars

SpecCombine == Init /\ [][CombineNext]_vars

SpecScrape == Init /\ [][ScrapeNext]_vars

\* The calls of scrape_team_season end (session.get has a timeout of 15
\* seconds and every exception is caught), and the main thread runs on.
SpecScrapeFair == Init /\ [][ScrapeNext]_vars /\ WF_vars(ScrapeNext)

SpecBlank == Init /\ [][BlankNext]_vars

SpecRender == Init /\ [][RenderNext]_vars

(***************************************************************************)
(* network_app.py: the filters of lines 216-251 on facet values given by   *)
(* the caller, present in the data or not (specification SpecFacet).  The  *)
(* multiselects of the script offer the values present only.               *)
(***************************************************************************)
\* Years and teams a facet may name: 2003 and NYJ are in no edge row.
FacetYears == {2001, 2002, 2003}
FacetTeams == {"KC", "MIA", "NYJ"}

FacetEdgeRows ==
    {e \in EdgeRows : <<e.from, e.to>> \in {<<"A", "B">>, <<"C", "A">>, <<"B", "C">>}}

FacetEdgeTables == TablesUpTo(FacetEdgeRows, MaxEdges)

DataFilesFacet ==
    /\ vpc = "nofiles"
    /\ \E tbl \in NodeTables, es \in FacetEdgeTables :
          /\ nodes_file' = tbl
          /\ edges_file' = es
    /\ vpc' = "files"
    /\ UNCHANGED <<nodes_df_original, edges_df_full, filter_mode, selected_node,
                   connection_depth, selected_community, include_external,
                   selected_years, selected_teams, connected_nodes, edges_df,
                   nodes_df, nodes_in_edges, warning>>
    /\ UNCHANGED <<bvars, lvars, xvars>>

\* A run in Individual Node mode whose facets hold any of the values.
RunFacetValues ==
    /\ vpc = "files"
    /\ \E node \in NodeOptions, depth \in {1, 2} :
          \E years \in SUBSET FacetYears, teams \in SUBSET FacetTeams :
              ResolveView("Individual Node", node, depth, None, FALSE,
                          IndividualConnected(edges_file, node, depth),
                          IndividualWarning(edges_file, node), years, teams)

FacetNext ==
    \/ DataFilesFacet
    \/ RunFacetValues
    \/ Rerun

SpecFacet == Init /\ [][FacetNext]_vars

(***************************************************************************)
(* Claims about the edge builder.                                          *)
(***************************************************************************)
\* The rows of the roster file that take part: allowed role category.
Eligible(i) == csv[i].role_category \in allowed_roles
SameTeamSeason(i, j) == csv[i].Team = csv[j].Team /\ csv[i].Year = csv[j].Year
\* The id the nodes table gives a name.
IdOfName(name) == CoachId(nodes, name)

\* The levels as the specification states them.
SpecLevel ==
    [r \in allowed_roles |->
        CASE r = "Head Coach" -> 1
          [] r = "Coordinator" -> 2
          [] r = "Specialist Coach" -> 4
          [] OTHER -> 3]

SpecRule(i, j) ==
    /\ SpecLevel[csv[i].role_category] < SpecLevel[csv[j].role_category]
    /\ (csv[i].role_category = "Head Coach"
            \/ csv[i].side_of_ball = csv[j].side_of_ball)

\* The hierarchical edge of roster rows i (source) and j (target).
HierEdgeOfRows(i, j) ==
    [from_coach_id |-> IdOfName(csv[i].Name), to_coach_id |-> IdOfName(csv[j].Name),
     team |-> csv[i].Team, year |-> csv[i].Year,
     from_role |-> csv[i].role_category, to_role |-> csv[j].role_category,
     from_side |-> csv[i].side_of_ball, to_side |-> csv[j].side_of_ball,
     edge_weight |-> 1, edge_type |-> "hierarchical"]

CoStaffEdgeOfRows(i, j) ==
    [from_coach_id |-> IdOfName(csv[i].Name), to_coach_id |-> IdOfName(csv[j].Name),
     team |-> csv[i].Team, year |-> csv[i].Year,
     from_role |-> csv[i].role_category, to_role |-> csv[j].role_category,
     from_side |-> csv[i].side_of_ball, to_side |-> csv[j].side_of_ball]

HierBuilt == bpc \in {"hierarchical", "done"}

\* C1: once the hierarchical loop has run, for every team-season and every
\* ordered pair (src, tgt) of eligible roster rows of it, the edge src->tgt is
\* in the hierarchical edge list if and only if level(src) < level(tgt) and
\* (src is Head Coach or both have the same side of ball), with the levels
\* 1, 2, 3, 3, 4; and the list holds no other edge.
C1_HierarchicalRule ==
    HierBuilt =>
        /\ \A i, j \in DOMAIN csv :
              (Eligible(i) /\ Eligible(j) /\ SameTeamSeason(i, j)) =>
                  (HierEdgeOfRows(i, j) \in Range(edges) <=> SpecRule(i, j))
        /\ \A e \in Range(edges) :
              \E i, j \in DOMAIN csv :
                  /\ Eligible(i) /\ Eligible(j) /\ SameTeamSeason(i, j)
                  /\ e = HierEdgeOfRows(i, j)

\* A team-season with a Head Coach, and a Coordinator and a Specialist Coach of
\* different sides: the Head Coach's edges exist, the Coordinator's does not.
C1_Witness ==
    /\ bpc = "done"
    /\ \E h, i, j \in DOMAIN csv :
          /\ SameTeamSeason(h, i) /\ SameTeamSeason(i, j)
          /\ csv[h].role_category = "Head Coach"
          /\ csv[i].role_category = "Coordinator"
          /\ csv[j].role_category = "Specialist Coach"
          /\ csv[i].side_of_ball # csv[j].side_of_ball
          /\ csv[h].side_of_ball # csv[j].side_of_ball
          /\ HierEdgeOfRows(h, j) \in Range(edges)
          /\ HierEdgeOfRows(i, j) \notin Range(edges)

EligibleRowsOf(key) ==
    {i \in DOMAIN csv : Eligible(i) /\ <<csv[i].Team, csv[i].Year>> = key}

CoStaffEdgesOf(key) ==
    {k \in DOMAIN costaff_edges :
        <<costaff_edges[k].team, costaff_edges[k].year>> = key}

\* C2: when the script is done, each team-season with n eligible roster rows
\* has exactly n*n co-staff edges, one for every ordered pair of its rows, the
\* n self-pairs included.
C2_CoStaffCount ==
    bpc = "done" =>
        \A key \in TeamSeasons :
            /\ Cardinality(CoStaffEdgesOf(key))
                  = Cardinality(EligibleRowsOf(key)) * Cardinality(EligibleRowsOf(key))
            /\ \A i, j \in EligibleRowsOf(key) :
                  CoStaffEdgeOfRows(i, j) \in Range(costaff_edges)

\* A team-season of three eligible rows: nine co-staff edges.
C2_Witness ==
    /\ bpc = "done"
    /\ \E key \in TeamSeasons :
          /\ Cardinality(EligibleRowsOf(key)) = 3
          /\ Cardinality(CoStaffEdgesOf(key)) = 9
          /\ \E i \in EligibleRowsOf(key) :
                \E k \in CoStaffEdgesOf(key) :
                    /\ costaff_edges[k] = CoStaffEdgeOfRows(i, i)
                    /\ costaff_edges[k].from_coach_id = costaff_edges[k].to_coach_id

\* The script run on a roster file.
Prepared(rows) ==
    LET kept == FilterRoles(rows) IN MergeCoachId(kept, NodesTable(kept))

\* The roster file without the rows of a disallowed role category.
CleanedCsv == SelectSeq(csv, LAMBDA r : r.role_category \in allowed_roles)

\* C3: when the script is done, no edge of either collection has an endpoint
\* of a disallowed role category, and both collections are what the script
\* builds from the roster file without its disallowed rows.
C3_DisallowedRolesDropped ==
    bpc = "done" =>
        /\ \A e \in Range(edges) \cup Range(costaff_edges) :
              e.from_role \in allowed_roles /\ e.to_role \in allowed_roles
        /\ edges = HierarchicalEdges(Prepared(CleanedCsv))
        /\ costaff_edges = CoStaffEdges(Prepared(CleanedCsv))

\* A roster whose first row has a disallowed role, in a team-season with a
\* Head Coach and a Coordinator.
C3_Witness ==
    /\ bpc = "done"
    /\ Len(csv) = 3
    /\ csv[1].role_category \notin allowed_roles
    /\ csv[2].role_category = "Head Coach"
    /\ csv[3].role_category = "Coordinator"
    /\ SameTeamSeason(1, 2) /\ SameTeamSeason(2, 3)
    /\ csv[1].Name # csv[2].Name
    /\ Len(edges) = 1
    /\ Len(costaff_edges) = 4

\* Two edges of one team-season that join the same two coaches in opposite
\* directions.
Opposite(e1, e2) ==
    /\ e1.team = e2.team /\ e1.year = e2.year
    /\ e1.from_coach_id # e1.to_coach_id
    /\ e1.from_coach_id = e2.to_coach_id
    /\ e1.to_coach_id = e2.from_coach_id

NoEqualLevelEdge ==
    \A e \in Range(edges) : SpecLevel[e.from_role] # SpecLevel[e.to_role]

\* C18, as stated: within a team-season no two hierarchical edges join two
\* coaches in opposite directions, and no edge joins two records of equal
\* level.
C18_NoBothDirections ==
    HierBuilt =>
        /\ \A e1, e2 \in Range(edges) : ~ Opposite(e1, e2)
        /\ NoEqualLevelEdge

\* C18, amended: every hierarchical edge goes from a record of a lower level
\* number to one of a higher level number, so none joins two records of equal
\* level and none is the reverse of another edge between the same two records;
\* two coaches are joined in both directions only when one of them has two
\* records of different levels in that team-season.
C18_NoReverseBetweenRecords ==
    HierBuilt =>
        /\ \A e \in Range(edges) : SpecLevel[e.from_role] < SpecLevel[e.to_role]
        /\ \A e1, e2 \in Range(edges) :
              Opposite(e1, e2) =>
                  /\ ~ (e1.from_role = e2.to_role /\ e1.to_role = e2.from_role)
                  /\ \E i, j \in DOMAIN csv :
                        /\ Eligible(i) /\ Eligible(j) /\ SameTeamSeason(i, j)
                        /\ csv[i].Team = e1.team /\ csv[i].Year = e1.year
                        /\ csv[i].Name = csv[j].Name
                        /\ SpecLevel[csv[i].role_category] # SpecLevel[csv[j].role_category]

\* A Head Coach, and two position coaches of offense and of defense, in one
\* team-season: the Head Coach's two edges, and none between the level-3
\* records.
C18_Witness ==
    /\ bpc = "done"
    /\ Len(csv) = 3
    /\ SameTeamSeason(1, 2) /\ SameTeamSeason(2, 3)
    /\ csv[1].role_category = "Head Coach"
    /\ csv[2].role_category = "Position Coach - Offense"
    /\ csv[3].role_category = "Position Coach - Defense"
    /\ csv[1].Name = "Reid" /\ csv[2].Name = "Shula" /\ csv[3].Name = "Shula"
    /\ Len(edges) = 2
    /\ \A e \in Range(edges) : e.from_role = "Head Coach"

\* The positions of the hierarchical edges from coach a to coach b in a
\* team-season.
EdgesOfKey(a, b, key) ==
    {k \in DOMAIN edges :
        /\ edges[k].from_coach_id = a /\ edges[k].to_coach_id = b
        /\ <<edges[k].team, edges[k].year>> = key}

\* The ordered pairs of roster rows of coach a and coach b in a team-season
\* that the hierarchy rule joins.
RowPairsOfKey(a, b, key) ==
    {p \in EligibleRowsOf(key) \X EligibleRowsOf(key) :
        /\ IdOfName(csv[p[1]].Name) = a /\ IdOfName(csv[p[2]].Name) = b
        /\ SpecRule(p[1], p[2])}

CoachIds == {nodes[i].coach_id : i \in DOMAIN nodes}

\* C19, as stated: the hierarchical edge list holds at most one edge per
\* (from_coach, to_coach, team, year).
C19_OneEdgePerKey ==
    HierBuilt =>
        \A a, b \in CoachIds : \A key \in TeamSeasons :
            Cardinality(EdgesOfKey(a, b, key)) <= 1

\* C19, amended: for every ordered pair of coaches and every team-season the
\* list holds one edge per ordered pair of their roster rows of that
\* team-season that the rule joins: the edges of different team-seasons are
\* all kept, and a coach with several rows in a team-season gives several
\* edges of one (from, to, team, year).
C19_OneEdgePerRowPair ==
    HierBuilt =>
        \A a, b \in CoachIds : \A key \in TeamSeasons :
            Cardinality(EdgesOfKey(a, b, key)) = Cardinality(RowPairsOfKey(a, b, key))

\* Reid Head Coach and Shula Coordinator of KC in 2001 and in 2002: one edge
\* Reid->Shula for each of the two team-seasons.
C19_Witness ==
    /\ bpc = "done"
    /\ Len(csv) = 4
    /\ Len(edges) = 2
    /\ edges[1].from_coach_id = edges[2].from_coach_id
    /\ edges[1].to_coach_id = edges[2].to_coach_id
    /\ edges[1].from_coach_id # edges[1].to_coach_id
    /\ edges[1].team = edges[2].team
    /\ edges[1].year = 2001 /\ edges[2].year = 2002

\* Roster row i has an empty cell.
Malformed(i) ==
    \/ csv[i].Name = NaNText
    \/ csv[i].Team = NaNText
    \/ csv[i].Year = NaN
    \/ csv[i].role_category = NaNText
    \/ csv[i].side_of_ball = NaNText

\* Roster row i is the source or the target of edge e.
EndpointOf(i, e) ==
    /\ e.team = csv[i].Team /\ e.year = csv[i].Year
    /\ \/ /\ e.from_coach_id = IdOfName(csv[i].Name)
          /\ e.from_role = csv[i].role_category
          /\ e.from_side = csv[i].side_of_ball
       \/ /\ e.to_coach_id = IdOfName(csv[i].Name)
          /\ e.to_role = csv[i].role_category
          /\ e.to_side = csv[i].side_of_ball

\* C20, as stated: when the script is done, a roster row with an empty Name,
\* Team, Year, role_category or side_of_ball cell is the endpoint of no
\* hierarchical edge and of no co-staff edge.
C20_MalformedRowsAbsent ==
    bpc = "done" =>
        \A i \in DOMAIN csv :
            Malformed(i) =>
                /\ \A e \in Range(edges) : ~ EndpointOf(i, e)
                /\ \A e \in Range(costaff_edges) : ~ EndpointOf(i, e)

NodesBuilt == bpc \in {"merged", "hierarchical", "done"}

\* The positions of the nodes table that hold a name.
NodesOfName(name) == {i \in DOMAIN nodes : nodes[i].coach = name}

EndpointsAreNodes ==
    \A e \in Range(edges) \cup Range(costaff_edges) :
        e.from_coach_id \in CoachIds /\ e.to_coach_id \in CoachIds

\* C21, as stated: the nodes table holds exactly one row per distinct name of
\* any roster row, the ids are distinct, and every edge endpoint is an id of
\* the table.
C21_OneNodePerRosterName ==
    NodesBuilt =>
        /\ \A name \in Names :
              Cardinality(NodesOfName(name))
                  = IF \E i \in DOMAIN csv : csv[i].Name = name THEN 1 ELSE 0
        /\ \A i, j \in DOMAIN nodes : nodes[i].coach_id = nodes[j].coach_id => i = j
        /\ EndpointsAreNodes

\* C21, amended: the nodes table holds exactly one row per distinct name of
\* the roster rows of an allowed role category (a name that occurs only in
\* rows of other categories has no node); the ids are 1, 2, ... in the order
\* of first occurrence, hence distinct; every endpoint of a hierarchical or
\* co-staff edge is an id of the table.
C21_OneNodePerEligibleName ==
    NodesBuilt =>
        /\ \A name \in Names :
              Cardinality(NodesOfName(name))
                  = IF \E i \in DOMAIN csv : Eligible(i) /\ csv[i].Name = name
                    THEN 1 ELSE 0
        /\ \A i \in DOMAIN nodes : nodes[i].coach_id = i
        /\ \A i, j \in DOMAIN nodes : nodes[i].coach_id = nodes[j].coach_id => i = j
        /\ EndpointsAreNodes

\* Reid in two eligible rows and Shula in one, in one team-season: two nodes,
\* and edges between them.
C21_Witness ==
    /\ bpc = "done"
    /\ Len(csv) = 3
    /\ Eligible(1) /\ Eligible(2) /\ Eligible(3)
    /\ csv[1].Name = "Reid" /\ csv[2].Name = "Shula" /\ csv[3].Name = "Reid"
    /\ nodes = <<[coach |-> "Reid", coach_id |-> 1], [coach |-> "Shula", coach_id |-> 2]>>
    /\ Len(edges) >= 2

(***************************************************************************)
(* Claims about the query engine of network_app.py.                        *)
(***************************************************************************)
\* n and m are joined by an edge row of the loaded table, in either direction.
Adjacent(n, m) ==
    \E e \in edges_file : (e.from = n /\ e.to = m) \/ (e.from = m /\ e.to = n)

InGraph(n) == \E e \in edges_file : e.from = n \/ e.to = n

EdgeFromTo(f, t) == \E e \in edges_file : e.from = f /\ e.to = t

IndividualView(depth) ==
    /\ vpc = "shown"
    /\ filter_mode = "Individual Node"
    /\ connection_depth = depth
    /\ InGraph(selected_node)

\* C4: after a run in Individual Node mode with depth 1 and the focal node in
\* the graph, the selected node set is exactly the focal node, its successors
\* and its predecessors.
C4_Depth1Selection ==
    IndividualView(1) =>
        \A n \in NodeIds :
            n \in connected_nodes <=>
                (n = selected_node \/ EdgeFromTo(selected_node, n)
                                   \/ EdgeFromTo(n, selected_node))

\* The graph A->B, C->A with focal A: the selection is {A, B, C}.
C4_Witness ==
    /\ IndividualView(1)
    /\ selected_node = "A"
    /\ {<<e.from, e.to>> : e \in edges_file} = {<<"A", "B">>, <<"C", "A">>}
    /\ connected_nodes = {"A", "B", "C"}

\* C5: after a run in Individual Node mode with depth 2, the selected node set
\* is exactly the focal node, the first hop H1 (successors and predecessors of
\* the focal node) and every successor and predecessor of a node of H1.
C5_Depth2Selection ==
    IndividualView(2) =>
        \A n \in NodeIds :
            n \in connected_nodes <=>
                \/ n = selected_node
                \/ Adjacent(selected_node, n)
                \/ \E v \in NodeIds : Adjacent(selected_node, v) /\ Adjacent(v, n)

\* The graph D->C, C->A, A->B with focal A: D, a predecessor of the
\* predecessor C, is selected.
C5_Witness ==
    /\ IndividualView(2)
    /\ selected_node = "A"
    /\ {<<e.from, e.to>> : e \in edges_file}
          = {<<"D", "C">>, <<"C", "A">>, <<"A", "B">>}
    /\ connected_nodes = {"A", "B", "C", "D"}

\* The nodes that carry the selected community label.
Members == {r.coach_id : r \in {x \in nodes_file : x.community = selected_community}}

CommunityView(ext) ==
    /\ vpc = "shown"
    /\ filter_mode = "Community"
    /\ include_external = ext

C7_ExternalOneHop ==
    CommunityView(TRUE) =>
        /\ connection_depth = NoDepth
        /\ \A n \in NodeIds :
              n \in connected_nodes <=>
                  (n \in Members \/ \E m \in Members : Adjacent(m, n))

\* Community West = {C}, edges C->A and A->D: A is added, D (two hops) is not.
C7_Witness ==
    /\ CommunityView(TRUE)
    /\ selected_community = "West"
    /\ {<<e.from, e.to>> : e \in edges_file} = {<<"C", "A">>, <<"A", "D">>}
    /\ connected_nodes = {"A", "C"}

\* C8: after every run the edge set of the view is exactly the set of loaded
\* edges with both endpoints in the selected node set, with the year in the
\* selected years when years are selected, and with the team in the selected
\* teams when teams are selected.
C8_FacetsIntersect ==
    vpc = "shown" =>
        /\ edges_df \subseteq edges_file
        /\ \A e \in edges_file :
              e \in edges_df <=>
                  /\ e.from \in connected_nodes
                  /\ e.to \in connected_nodes
                  /\ (selected_years # {} => e.year \in selected_years)
                  /\ (selected_teams # {} => e.team \in selected_teams)

\* Both facets active on a selection holding an edge of the selected year and
\* another team, and an edge of the selected team and another year: both are
\* left out, a third edge stays.
C8_Witness ==
    /\ vpc = "shown"
    /\ selected_years = {2001}
    /\ selected_teams = {"KC"}
    /\ Cardinality(edges_df) = 1
    /\ \E e \in EndpointFilter(edges_file, connected_nodes) :
          e.year = 2001 /\ e.team = "MIA"
    /\ \E e \in EndpointFilter(edges_file, connected_nodes) :
          e.year = 2002 /\ e.team = "KC"

\* C9: after every run the node set of the view, and the node rows kept, are
\* exactly the sources and targets of the filtered edges.
C9_NodesAreEndpoints ==
    vpc = "shown" =>
        \A n \in NodeIds :
            /\ n \in nodes_in_edges <=> \E e \in edges_df : e.from = n \/ e.to = n
            /\ (\E r \in nodes_df : r.coach_id = n) <=> n \in nodes_in_edges

\* A view whose focal node has an edge in the graph and none among the
\* filtered edges: it is not among the nodes returned, which are not empty.
C9_Witness ==
    /\ IndividualView(1)
    /\ selected_node \notin nodes_in_edges
    /\ nodes_in_edges # {}
    /\ {r.coach_id : r \in nodes_df} = nodes_in_edges

\* The year facet is active and leaves out every edge that touches the focal node.
YearsExcludeFocal ==
    /\ vpc = "shown"
    /\ filter_mode = "Individual Node"
    /\ InGraph(selected_node)
    /\ selected_years # {}
    /\ \A e \in edges_file :
          (e.from = selected_node \/ e.to = selected_node) => e.year \notin selected_years

\* C10, as stated: a year subset that excludes every edge touching the focal
\* node yields an empty node set.
C10_EmptyNodeSet == YearsExcludeFocal => nodes_in_edges = {}

\* C10, amended: such a year subset yields a node set without the focal node;
\* the set holds exactly the endpoints of the surviving edges between the
\* other selected nodes, and is empty only when there is none.
C10_FocalDisappears ==
    YearsExcludeFocal =>
        /\ selected_node \in connected_nodes
        /\ selected_node \notin nodes_in_edges
        /\ {r.coach_id : r \in nodes_df} = nodes_in_edges
        /\ (nodes_in_edges = {} <=>
              ~ \E e \in edges_file :
                    /\ e.from \in connected_nodes \ {selected_node}
                    /\ e.to \in connected_nodes \ {selected_node}
                    /\ e.year \in selected_years
                    /\ (selected_teams # {} => e.team \in selected_teams))

\* Depth 1, the years {2002} selected, every edge of the focal node of 2001
\* and an edge of 2002 between two of its neighbours: the neighbours are
\* returned, the focal node is not.
C10_Witness ==
    /\ YearsExcludeFocal
    /\ connection_depth = 1
    /\ selected_years = {2002}
    /\ selected_node \in connected_nodes
    /\ nodes_in_edges # {}
    /\ selected_node \notin nodes_in_edges

\* C11: after a run in Individual Node mode whose focal node is in no edge row
\* (not a node of the graph), a view is shown all the same: the selected node
\* set is the set of all nodes of the graph, the edges shown are all loaded
\* edges that pass the facets, and the "node not found" warning is raised.
C11_NodeNotFoundFallback ==
    (vpc = "shown" /\ filter_mode = "Individual Node" /\ ~ InGraph(selected_node)) =>
        /\ \A n \in NodeIds : n \in connected_nodes <=> InGraph(n)
        /\ "node not found" \in warning
        /\ \A e \in edges_file :
              e \in edges_df <=>
                  /\ (selected_years # {} => e.year \in selected_years)
                  /\ (selected_teams # {} => e.team \in selected_teams)

\* Focal node D with no edge, the graph A->B, B->C: the selection is {A, B, C},
\* with a warning, and the edges are shown.
C11_Witness ==
    /\ vpc = "shown"
    /\ filter_mode = "Individual Node"
    /\ selected_node = "D"
    /\ {<<e.from, e.to>> : e \in edges_file} = {<<"A", "B">>, <<"B", "C">>}
    /\ connected_nodes = {"A", "B", "C"}
    /\ warning = {"node not found"}
    /\ edges_df = edges_file

\* The warnings of a Community choice that found no community to offer.
CommunityWarnings == {"no valid communities", "no community column"}

NoValidCommunity ==
    IF \E r \in nodes_file : "community" \notin DOMAIN r
    THEN TRUE
    ELSE \A r \in nodes_file : r.community = "NA"

\* The neighbourhood of the focal node at the depth chosen.
Neighbourhood ==
    {n \in NodeIds :
        \/ n = selected_node
        \/ Adjacent(selected_node, n)
        \/ connection_depth = 2
              /\ \E v \in NodeIds : Adjacent(selected_node, v) /\ Adjacent(v, n)}

\* C12, as stated: every run that met a selection error (and so raised a
\* warning) returned the full graph.
C12_ErrorsGiveFullGraph ==
    (vpc = "shown" /\ warning # {}) =>
        \A n \in NodeIds : n \in connected_nodes <=> InGraph(n)

\* C12, amended: no selection error stops the run.  The "node not found"
\* warning is raised exactly when the run is in Individual Node mode with a
\* focal node outside the graph, and then the selection is the full graph.  A
\* Community choice on a node table without a valid community raises a warning
\* and continues in Individual Node mode: the selection is the neighbourhood of
\* the focal node when that node is in the graph.  A run that stays in
\* Community mode raises no warning and selects a non-empty membership.
C12_SelectionErrorsDegrade ==
    vpc = "shown" =>
        /\ "node not found" \in warning
              <=> (filter_mode = "Individual Node" /\ ~ InGraph(selected_node))
        /\ "node not found" \in warning
              => \A n \in NodeIds : n \in connected_nodes <=> InGraph(n)
        /\ warning \cap CommunityWarnings # {}
              => /\ NoValidCommunity
                 /\ filter_mode = "Individual Node"
                 /\ selected_node \in NodeIds
                 /\ InGraph(selected_node) => connected_nodes = Neighbourhood
        /\ filter_mode = "Community"
              => warning = {} /\ ~ NoValidCommunity /\ connected_nodes # {}

\* Community chosen on a table whose community column holds only NA, the graph
\* A->B, C->D and focal node A at depth 1: a warning, and the selection is
\* {A, B}, not the full graph.
C12_Witness ==
    /\ vpc = "shown"
    /\ warning = {"no valid communities"}
    /\ filter_mode = "Individual Node"
    /\ selected_node = "A"
    /\ connection_depth = 1
    /\ {<<e.from, e.to>> : e \in edges_file} = {<<"A", "B">>, <<"C", "D">>}
    /\ connected_nodes = {"A", "B"}

\* The edges between selected nodes: the edge set the facets act on.
CurrentEdges == {e \in edges_file : e.from \in connected_nodes /\ e.to \in connected_nodes}

SameArguments ==
    /\ vpc = "shown"
    /\ last_view.mode # None
    /\ last_view.mode = filter_mode
    /\ last_view.node = selected_node
    /\ last_view.depth = connection_depth
    /\ last_view.community = selected_community
    /\ last_view.external = include_external
    /\ last_view.years = selected_years
    /\ last_view.teams = selected_teams

\* C16: a run with the selection and the facets of an earlier run on the same
\* files shows the edge set, the node set and the node rows of that earlier
\* run, whatever runs came in between.
C16_SameArgumentsSameView ==
    SameArguments =>
        /\ edges_df = last_view.edges
        /\ nodes_in_edges = last_view.nodes
        /\ nodes_df = last_view.rows

\* The view of focal node B at depth 1 with the years {2001}, two edges shown,
\* resolved a second time.
C16_Witness ==
    /\ SameArguments
    /\ selected_node = "B"
    /\ connection_depth = 1
    /\ selected_years = {2001}
    /\ Cardinality(edges_df) = 2
    /\ Cardinality(edges_file) = 3
    /\ edges_df = last_view.edges

\* C17: no step changes the two files once they are loaded, and every run
\* ends with the full node table and the full edge table as loaded (the
\* loaded edge table is what the graph G_full of the run is built from),
\* whatever the selection and the facets kept in the view.
C17_StoreUnchanged ==
    [][vpc # "nofiles" =>
          /\ nodes_file' = nodes_file
          /\ edges_file' = edges_file
          /\ vpc' = "shown" =>
                /\ nodes_df_original' = nodes_file
                /\ edges_df_full' = edges_file
                /\ edges_df' \subseteq edges_df_full'
                /\ nodes_df' \subseteq nodes_df_original']_vars

\* A view that keeps one of three edges and two of four node rows: the full
\* tables are still those of the files.
C17_Witness ==
    /\ vpc = "shown"
    /\ Cardinality(edges_file) = 3
    /\ Cardinality(edges_df) = 1
    /\ Cardinality(nodes_df) = 2
    /\ edges_df_full = edges_file
    /\ nodes_df_original = nodes_file

(***************************************************************************)
(* Claims about the load of network_app.py.                                *)
(***************************************************************************)
HasFromTo == {"from", "to"} \subseteq edges_columns
HasSourceTarget == {"source", "target"} \subseteq edges_columns
HasNodeId == "coach_id" \in nodes_columns \/ "id" \in nodes_columns
Detected == vpc \in {"detected", "loaded"}

\* C14, as stated: the load succeeds only when exactly one of the two accepted
\* edge-endpoint pairs is present, with an accepted node id column.
C14_ExactlyOnePair ==
    Detected => ((HasFromTo /\ ~ HasSourceTarget) \/ (HasSourceTarget /\ ~ HasFromTo))
                    /\ HasNodeId

\* C14, amended: the load succeeds exactly when at least one accepted
\* edge-endpoint pair and at least one accepted node id column are present;
\* with both pairs present from/to is taken, with both id columns coach_id.
\* In every other case the script stops with an error message, and neither
\* the graph nor a view is produced.
C14_SchemaNegotiation ==
    vpc \in {"detected", "loaded", "stopped"} =>
        /\ Detected <=> ((HasFromTo \/ HasSourceTarget) /\ HasNodeId)
        /\ Detected =>
              /\ error = {}
              /\ <<source_col, target_col>>
                    = IF HasFromTo THEN <<"from", "to">> ELSE <<"source", "target">>
              /\ id_col = IF "coach_id" \in nodes_columns THEN "coach_id" ELSE "id"
        /\ vpc = "stopped" =>
              /\ error # {}
              /\ G_full = NoGraph
              /\ nodes_df_original = {} /\ connected_nodes = {}
              /\ edges_df = {} /\ nodes_df = {} /\ nodes_in_edges = {}
              /\ ~ ENABLED BuildGraph

\* Both endpoint pairs and both id columns present: the load succeeds with
\* from/to and coach_id, and the graph is built.
C14_Witness ==
    /\ vpc = "loaded"
    /\ HasFromTo /\ HasSourceTarget
    /\ {"coach_id", "id"} \subseteq nodes_columns
    /\ source_col = "from"
    /\ id_col = "coach_id"
    /\ G_full.nodes # {}

\* The edge file with its source and target columns named from and to.
RenamedColumns == (edges_columns \ {"source", "target"}) \cup {"from", "to"}

RenamedEdges ==
    {[c \in RenamedColumns |->
        IF c = "from" THEN r["source"] ELSE IF c = "to" THEN r["target"] ELSE r[c]] :
            r \in edges_file}

SourceTargetOnly ==
    /\ vpc = "loaded"
    /\ HasSourceTarget
    /\ edges_columns \cap {"from", "to"} = {}

\* C15: the graph store loaded from an edge file with the source/target
\* naming is the graph store that the same rows give under the from/to naming:
\* same nodes, same edges with the same attributes, same node attributes; its
\* edges run from the source column to the target column.
C15_NamingRoundTrip ==
    SourceTargetOnly =>
        /\ G_full = FullGraph(RenamedEdges, nodes_file,
                              DetectEdgeColumns(RenamedColumns)[1],
                              DetectEdgeColumns(RenamedColumns)[2], id_col, label_col)
        /\ \A u, v \in NodeIds :
              (\E e \in G_full.edges : e.source = u /\ e.target = v)
                  <=> (\E r \in edges_file : r["source"] = u /\ r["target"] = v)

\* The edges A->B and B->C in a file with the columns source and target.
C15_Witness ==
    /\ SourceTargetOnly
    /\ source_col = "source"
    /\ {<<e.source, e.target>> : e \in G_full.edges} = {<<"A", "B">>, <<"B", "C">>}
    /\ G_full.nodes = {"A", "B", "C"}
    /\ DOMAIN G_full.attrs = {"A", "B", "C"}

\* The display-name column that goes with the id column of the node table.
DisplayColumn == IF "coach_id" \in nodes_columns THEN "coach" ELSE "label"

RowsOfEdge(e) == {r \in edges_df : r.from = e.source /\ r.to = e.target}

\* The strength the claim gives to a row: the first present column, else 1.
FirstPresent(r) ==
    IF "weight" \in DOMAIN r THEN r.weight
    ELSE IF "closeness" \in DOMAIN r THEN r.closeness
    ELSE IF "hierarchy" \in DOMAIN r THEN r.hierarchy
    ELSE 1

\* C23 as stated: the value of every drawn edge is the value of the first
\* column present among weight, closeness, hierarchy in a row of that edge,
\* and 1 when none is present.
C23_ValueIsFirstPresent ==
    vpc = "drawn" =>
        \A e \in net_edges : \E r \in RowsOfEdge(e) : e.value = FirstPresent(r)

\* C23: the view has one drawn edge per pair of endpoints; its weight, shown in
\* the hover text, is the value of the first column present among weight,
\* closeness, hierarchy in a row of that edge, an empty cell (NaN) included,
\* and 1 when none is present; its value is that weight, and 1 when the
\* weight is 0.
C23_EdgeStrength ==
    vpc = "drawn" =>
        /\ {<<e.source, e.target>> : e \in net_edges} = ViewPairs(edges_df)
        /\ \A e \in net_edges :
              \E r \in RowsOfEdge(e) :
                /\ e.weight = FirstPresent(r)
                /\ e.value = IF FirstPresent(r) = 0 THEN 1 ELSE FirstPresent(r)

\* An edge with weight 0 next to closeness 3 is drawn with value 1, and an
\* edge with closeness 3 and hierarchy 4 with value 3.
C23_Witness ==
    /\ vpc = "drawn"
    /\ \E r \in edges_df :
          /\ DOMAIN r = {"from", "to", "year", "team", "closeness", "hierarchy"}
          /\ r.closeness = 3 /\ r.hierarchy = 4
          /\ \E e \in net_edges : e.source = r.from /\ e.target = r.to /\ e.value = 3
    /\ \E r \in edges_df :
          /\ DOMAIN r = {"from", "to", "year", "team", "closeness", "hierarchy"}
          /\ r.closeness = 0
          /\ \E e \in net_edges : e.source = r.from /\ e.target = r.to /\ e.value = 1

\* The values a facet offers by default: those of the filled cells.
AllYears == {e.year : e \in CurrentEdges} \ {NaN}

AfterAllYears == {e \in CurrentEdges : AllYears # {} => e.year \in AllYears}

AllTeams == {e.team : e \in AfterAllYears} \ {NaNText}

DefaultFacets ==
    /\ vpc = "shown"
    /\ selected_years = AllYears
    /\ selected_teams = AllTeams

\* C28 as stated: with every offered year and team selected, the view has the
\* edges between the selected nodes, all of them.
C28_DefaultFacetsRemoveNothing == DefaultFacets => edges_df = CurrentEdges

\* C28: with every offered year and team selected, the view has the edges
\* between the selected nodes, except those with an empty year cell when some
\* edge has a year, and those with an empty team cell when some edge left
\* has a team; with every cell filled it has them all.
C28_DefaultFacetsKeepFilledRows ==
    DefaultFacets =>
        /\ edges_df = {e \in CurrentEdges :
                          /\ AllYears # {} => e.year # NaN
                          /\ AllTeams # {} => e.team # NaNText}
        /\ (\A e \in CurrentEdges : e.year # NaN /\ e.team # NaNText)
              => edges_df = CurrentEdges

\* Focal node B with three edges, one of them without a year: the default
\* facets show the other two.  (The second conjunct: a file with every cell
\* filled, all three edges shown.)
C28_Witness ==
    /\ DefaultFacets
    /\ selected_node = "B"
    /\ Cardinality(CurrentEdges) = 3
    /\ selected_years = {2001, 2002}
    /\ selected_teams = {"KC"}
    /\ \E e \in CurrentEdges : e.year = NaN
    /\ Cardinality(edges_df) = 2

\* C29: a run with no year selected shows the edges between the selected
\* nodes that the team facet alone leaves, a run with no team selected those
\* that the year facet alone leaves, and a run with neither shows them all:
\* an empty selection restricts nothing.
C29_EmptySelectionInactive ==
    vpc = "shown" =>
        /\ selected_years = {} =>
              edges_df = {e \in CurrentEdges : selected_teams # {} => e.team \in selected_teams}
        /\ selected_teams = {} =>
              edges_df = {e \in CurrentEdges : selected_years # {} => e.year \in selected_years}
        /\ (selected_years = {} /\ selected_teams = {}) => edges_df = CurrentEdges

\* Focal node B, edges of 2001 and 2002 of KC, every year and every team
\* deselected: the three edges are shown.
C29_Witness ==
    /\ vpc = "shown"
    /\ selected_node = "B"
    /\ selected_years = {}
    /\ selected_teams = {}
    /\ AllYears = {2001, 2002}
    /\ AllTeams = {"KC"}
    /\ Cardinality(edges_df) = 3
    /\ edges_df = CurrentEdges

\* The run shown and the remembered run are Individual Node runs on the same
\* focal node with the same year and team facets.
SameFocalAndFacets ==
    /\ vpc = "shown"
    /\ filter_mode = "Individual Node"
    /\ last_view.mode = "Individual Node"
    /\ last_view.node = selected_node
    /\ selected_node \in GNodes(edges_file)
    /\ last_view.years = selected_years
    /\ last_view.teams = selected_teams

\* C30: of two runs on the same files with the same focal node of the graph
\* and the same year and team facets, one at depth 1 and one at depth 2, the
\* edges, the nodes and the node rows of the depth-1 view are among those of
\* the depth-2 view, in whichever order the two runs come.
C30_Depth1WithinDepth2 ==
    /\ (SameFocalAndFacets /\ last_view.depth = 1 /\ connection_depth = 2)
          => /\ last_view.edges \subseteq edges_df
             /\ last_view.nodes \subseteq nodes_in_edges
             /\ last_view.rows \subseteq nodes_df
    /\ (SameFocalAndFacets /\ last_view.depth = 2 /\ connection_depth = 1)
          => /\ edges_df \subseteq last_view.edges
             /\ nodes_in_edges \subseteq last_view.nodes
             /\ nodes_df \subseteq last_view.rows

\* Focal node A with A -> B and B -> C in 2001: depth 1 showed the edge
\* A -> B, depth 2 shows both edges and the three nodes.
C30_Witness ==
    /\ SameFocalAndFacets
    /\ selected_node = "A"
    /\ last_view.depth = 1
    /\ connection_depth = 2
    /\ selected_years = {2001}
    /\ Cardinality(last_view.edges) = 1
    /\ Cardinality(edges_df) = 2
    /\ last_view.nodes = {"A", "B"}
    /\ nodes_in_edges = {"A", "B", "C"}

\* The rows of the files in file order: the files in sorted order, the rows
\* of a file in its order.
InputRows == DropColumns(Concat(files, 1), {"_source_file"})

OccurrencesOf(key) == {i \in DOMAIN InputRows : TeamYear(InputRows[i]) = key}

NonNull(r) == Cardinality({c \in {"HC", "OC"} : r[c] # NaNText})

Min(S) == CHOOSE x \in S : \A y \in S : x <= y

Max(S) == CHOOSE x \in S : \A y \in S : x >= y

\* C24: combine_wide_format returns, for every team and year of the input
\* files, exactly one row, which is a row of that team and year of the input,
\* and no other row; under most_complete that row has the largest number of
\* non-null staff cells among the rows of its team and year, under first it is
\* the first of them in file order, under last the last.
C24_OneRowPerTeamYear ==
    cpc = "returned" =>
        /\ \A i \in DOMAIN returned : OccurrencesOf(TeamYear(returned[i])) # {}
        /\ \A key \in WideKeys :
              OccurrencesOf(key) # {} =>
                /\ Cardinality({i \in DOMAIN returned : TeamYear(returned[i]) = key}) = 1
                /\ \A i \in DOMAIN returned :
                      TeamYear(returned[i]) = key =>
                        /\ \E j \in OccurrencesOf(key) : returned[i] = InputRows[j]
                        /\ keep_strategy = "most_complete" =>
                              NonNull(returned[i])
                                = Max({NonNull(InputRows[j]) : j \in OccurrencesOf(key)})
                        /\ keep_strategy = "first" =>
                              returned[i] = InputRows[Min(OccurrencesOf(key))]
                        /\ keep_strategy = "last" =>
                              returned[i] = InputRows[Max(OccurrencesOf(key))]

\* Two files with KC 2001: the first has the head coach only, the second both
\* positions; most_complete returns the row of the second file.
C24_Witness ==
    /\ cpc = "returned"
    /\ keep_strategy = "most_complete"
    /\ Len(files) = 2
    /\ Len(files[1]) = 2
    /\ files[1][1] = [Team |-> "KC", Year |-> 2001, HC |-> "Reid", OC |-> NaNText]
    /\ files[1][2].Team = "MIA"
    /\ files[2] = <<[Team |-> "KC", Year |-> 2001, HC |-> "Reid", OC |-> "Shula"]>>
    /\ Len(returned) = 2
    /\ \E i \in DOMAIN returned : returned[i] = files[2][1]

(***************************************************************************)
(* Claims about scrape_failed_teams.                                       *)
(***************************************************************************)
\* The team-seasons of a list of (team, year, error) entries.
TeamSeasonsOf(entries) == {<<entries[i][1], entries[i][2]>> : i \in DOMAIN entries}

IsPrefix(p, q) == Len(p) <= Len(q) /\ \A i \in DOMAIN p : p[i] = q[i]

\* C25: a step that submits a retry round submits the team-seasons of the
\* regular failed list, in its order, and none that is in the list of true
\* failures; and no step removes an entry from the list of true failures.
\* So a team-season, once a true failure, is in no later retry round.
C25_TrueFailuresNotResubmitted ==
    [][/\ spc' = "retry" /\ spc # "retry" =>
            /\ futures' = [i \in DOMAIN failed_teams |->
                              <<failed_teams[i][1], failed_teams[i][2]>>]
            /\ \A i \in DOMAIN futures' : futures'[i] \notin TeamSeasonsOf(true_failures)
       /\ IsPrefix(true_failures, true_failures')]_vars

\* A retry round of one team-season is under way while another one is in the
\* list of true failures since the initial round.
C25_Witness ==
    /\ spc = "retry"
    /\ Len(true_failures) = 1
    /\ Len(futures) = 1
    /\ done = {}
    /\ attempts[<<true_failures[1][1], true_failures[1][2]>>] = 1
    /\ futures[1] \notin TeamSeasonsOf(true_failures)

Skipped == {ts \in Range(tasks) : ~team_existed_in_year(ts[1], ts[2])}

\* The outcomes a team-season of the tasks is in.
OutcomesOf(ts) ==
    {o \in {"data", "failed", "true", "skipped"} :
        \/ o = "data" /\ ts \in Range(all_data)
        \/ o = "failed" /\ ts \in TeamSeasonsOf(failed_teams)
        \/ o = "true" /\ ts \in TeamSeasonsOf(true_failures)
        \/ o = "skipped" /\ ts \in Skipped}

\* C26: when scrape_failed_teams returns, whatever the order in which the
\* calls completed, every loaded team-season is in exactly one of the
\* successful data, the regular failures, the true failures and the skipped
\* ones (its team did not exist that year); the three lists hold no entry
\* twice and no team-season that was not loaded, and, when the initial round
\* ran, skipped_count is the number of skipped team-seasons.
C26_ExactlyOneOutcome ==
    spc = "returned" =>
        /\ \A ts \in Range(tasks) : Cardinality(OutcomesOf(ts)) = 1
        /\ Len(all_data) + Len(failed_teams) + Len(true_failures) + skipped_count
              = Len(tasks)
        /\ Range(all_data) \cup TeamSeasonsOf(failed_teams)
              \cup TeamSeasonsOf(true_failures) \subseteq Range(tasks)
        /\ skipped_count = Cardinality(Skipped)

\* Three team-seasons, four workers, one retry round: Miami succeeded before
\* Kansas City in the lists although it was loaded after it, Houston did not
\* exist in 2001.
C26_Witness ==
    /\ spc = "returned"
    /\ ~debug
    /\ workers = 4
    /\ tasks = <<<<"Kansas City Chiefs", 2001>>, <<"Miami Dolphins", 2001>>,
                 <<"Houston Texans", 2001>>>>
    /\ all_data = <<<<"Miami Dolphins", 2001>>>>
    /\ TeamSeasonsOf(true_failures) = {<<"Kansas City Chiefs", 2001>>}
    /\ attempts[<<"Kansas City Chiefs", 2001>>] = 2
    /\ skipped_count = 1

Finished == spc \in {"returned", "raised"}

\* The calls a team-season can get: one in debug mode, 1 + max_retries else.
AttemptsBounded ==
    /\ \A ts \in ScrapeTeamSeasons :
          attempts[ts] <= IF debug THEN 1 ELSE 1 + max_retries
    /\ retry_count <= max_retries + 1
    /\ spc = "retry" => (futures # <<>> /\ retry_count <= max_retries /\ ~debug)
    /\ Finished =>
          /\ \A ts \in Range(tasks) : attempts[ts] >= 1
          /\ debug => \A ts \in Range(tasks) : attempts[ts] = 1
          /\ debug \/ failed_teams = <<>> \/ retry_count = max_retries + 1

\* C27: scrape_failed_teams ends (it returns; with no task loaded it ends
\* with the ZeroDivisionError of the summary); until then and at the end
\* every team-season has had at most 1 + max_retries calls, exactly one in
\* debug mode, a retry round is entered with a non-empty failed list and
\* fewer than max_retries rounds done, and at the end the failed list is
\* empty or max_retries rounds have run.
C27_Terminates == []AttemptsBounded /\ <>Finished

\* Kansas City failed in the initial round and in two retry rounds, with
\* max_retries 2: three calls, and the function has returned.
C27_Witness ==
    /\ spc = "returned"
    /\ max_retries = 2
    /\ retry_count = 3
    /\ attempts[<<"Kansas City Chiefs", 2001>>] = 3
    /\ TeamSeasonsOf(failed_teams) = {<<"Kansas City Chiefs", 2001>>}

====
